---- MODULE Spec2Model ----
(***************************************************************************)
(* Model of the Codimir SDK core: Transport.request (src/src/transport.ts) *)
(* with its retry loop, per-attempt timeout and error normalisation, and   *)
(* the manual-mode event subscriber subscribeNodeSSE (realtime/sse.ts).    *)
(*                                                                         *)
(* Spec    : one call of Transport.request against an arbitrary server.    *)
(* SpecSSE : one manual-mode subscription against an arbitrary server.     *)
(***************************************************************************)
EXTENDS Integers, Sequences, FiniteSets, TLC

\* ------------------------------------------------------------------ bounds

\* Largest retryConfig.attempts the model draws (the code's default is 2).
MaxAttempts == 2

\* The configured timeoutMs, in abstract clock ticks.
TimeoutTicks == 2

\* Largest number of exchanges one subscription opens in the model.
MaxConnects == 2

\* Largest number of invocations of a subscription's cleanup function.
MaxCancels == 2

\* Largest number of pages one getAll call is served in the model.
MaxPages == 3

\* ------------------------------------------------------- inputs of a call

\* request's method parameter; shouldRetry also knows HEAD.
Methods == {"GET", "HEAD", "PUT", "DELETE", "POST", "PATCH"}

\* Response statuses the server may answer with.  response.status is copied
\* from the status line; 999 stands for a status above the five classes.
Statuses == {200, 201, 204, 404, 429, 500, 503, 999}

\* retryConfig.attempts: -1 stands for a negative budget.
AttemptChoices == (-1) .. MaxAttempts

MinDelayChoices == {100, 300}

FactorChoices == {2, 3}

\* getToken is a plain string or a provider function.
TokenModes == {"static", "provider"}

\* Body of an OK response, as response.json() sees it: a JSON value or
\* undecodable text.
OkBodies == {"x", "y", "invalid"}

\* Body of a non-OK response as response.json() sees it.  valid = FALSE: not
\* JSON.  code / message = "none": the field error.code / error.message is
\* absent (also when there is no error object at all).
ErrBodies ==
    { [valid |-> FALSE, code |-> "none", message |-> "none",
       details |-> "none"],
      [valid |-> TRUE,  code |-> "none", message |-> "none",
       details |-> "none"],
      [valid |-> TRUE,  code |-> "E_CUSTOM", message |-> "custom",
       details |-> "none"],
      [valid |-> TRUE,  code |-> "E_CUSTOM", message |-> "custom",
       details |-> "payload"],
      [valid |-> TRUE,  code |-> "none", message |-> "custom",
       details |-> "none"],
      [valid |-> TRUE,  code |-> "E_CUSTOM", message |-> "none",
       details |-> "payload"] }

\* No body has been read.
NoBody ==
    [valid |-> FALSE, code |-> "none", message |-> "none", details |-> "none"]

\* Non-OK statuses a response may carry (response.ok is false outside
\* 200..299).
NonOkStatuses == (100 .. 199) \cup (300 .. 599) \cup {999}

\* options.baseUrl: an address with zero, one or two trailing slashes.
BaseUrlOptions == { << "u" >>, << "u", "/" >>, << "u", "/", "/" >> }

\* options.fetch is given or not.
FetchOptions == {"injected", "absent"}

\* What a rejected fetch throws when no abort happened: an Error (TypeError)
\* or a value that is not an Error.
ThrownKinds == {"Error", "nonError"}

\* ------------------------------------------------------------------ state

VARIABLES
    method,        \* request's method argument
    baseUrl,       \* this.baseUrl
    fetchImpl,     \* this.fetchImpl: "injected" or "global"
    retryConfig,   \* this.retryConfig: [attempts, minDelayMs, factor]
    timeoutMs,     \* this.timeoutMs, in ticks
    getToken,      \* this.getToken: "static" or "provider"
    pc,            \* position of the request call
    attempt,       \* local variable attempt
    token,         \* local variable token
    tokenCalls,    \* number of invocations of the token provider
    sentTokens,    \* token sent by each exchange, in order
    exchanges,     \* number of fetchImpl calls made
    openExchanges, \* exchanges issued and neither settled nor aborted
    timer,         \* ticks left on the pending timeout timer, 0: none pending
    timersArmed,   \* initial budget of each timer armed, in order
    timerFired,    \* the timeout callback ran during the current attempt
    response,      \* status of the response being handled, 0: none
    statusLog,     \* outcome of each exchange: status, 0 exception, -1 abort
    waits,         \* the delays passed to this.delay, in order
    result,        \* how the call ended
    okBody,        \* what the body of the OK response held when it was decoded
    errBody,       \* what the body of the failing response held
    \* ---- manual-mode subscription (subscribeNodeSSE)
    isActive,      \* closure variable isActive
    controller,    \* closure variable controller: "live" or "null"
    signalAborted, \* controller.abort() has been called
    ssePc,         \* position of connect() (see the actions)
    buffer,        \* local variable buffer of the current connection
    remaining,     \* text the server has yet to send on the open channel
    chunk,         \* value of the read that has resolved and awaits handling
    delivered,     \* payloads handed to onMessage, in order
    connects,      \* number of fetch calls made by connect
    openChannels,  \* open exchanges the subscription still reads or awaits
    leaked,        \* responses dropped with their body neither read nor cancelled
    cancels,       \* number of invocations of the cleanup function
    disconnect,    \* how the last exchange of the subscription ended
    \* ---- a second call of request on the same Transport
    method2,        \* its method argument
    pc2,            \* its position, "none" while no second call is made
    attempt2,       \* its local variable attempt
    tokenCalls2,    \* invocations of the token provider it made
    exchanges2,     \* fetchImpl calls it made
    openExchanges2, \* its exchanges issued and neither settled nor aborted
    timer2,         \* ticks left on its timeout timer, 0: none pending
    response2,      \* status of the response it is handling, 0: none
    statusLog2,     \* outcome of each of its exchanges
    waits2,         \* the delays it passed to this.delay, in order
    result2,        \* how it ended
    \* ---- what the read loop of the subscription has seen and reported
    received,        \* text of the current connection appended to buffer so far
    deliveredAtOpen, \* Len(delivered) when the current connection's buffer was created
    typed,           \* the subscription was made by subscribeTypedEvents
    parsedEvents,    \* the events handed to onEvent, in order
    warnings,        \* number of console.warn calls made for events
    lateDeliveries,  \* events handed to onMessage after the cleanup function ran
    \* ---- a call of TicketsApi.getAll
    gaPc,          \* position of the getAll call
    gaParams,      \* its params argument as it is at run time
    allTickets,    \* local variable allTickets
    cursor,        \* local variable cursor
    listOpen,      \* list requests issued and not yet settled
    queries,       \* query of each list request issued, in order
    pages,         \* pages the list requests resolved with, in order
    listFailures,  \* errors the list requests rejected with, in order
    noItems,       \* list requests that resolved with a value without items
    gaResult       \* how the getAll call ended

tvars == << method, baseUrl, fetchImpl, retryConfig, timeoutMs, getToken,
            pc, attempt, token,
            tokenCalls, sentTokens, exchanges, openExchanges, timer,
            timersArmed, timerFired, response, statusLog, waits, result,
            okBody, errBody >>

svars == << isActive, controller, signalAborted, ssePc, buffer, remaining,
            chunk, delivered, connects, openChannels, leaked, cancels,
            disconnect >>

cvars == << method2, pc2, attempt2, tokenCalls2, exchanges2, openExchanges2,
            timer2, response2, statusLog2, waits2, result2 >>

evars == << received, deliveredAtOpen, typed, parsedEvents, warnings,
            lateDeliveries >>

gvars == << gaPc, gaParams, allTickets, cursor, listOpen, queries, pages,
            listFailures, noItems, gaResult >>

vars == << tvars, svars, cvars, evars, gvars >>

\* ------------------------------------------------------------ pure helpers

RECURSIVE StripTrailingSlashes(_)
\* Line 16: options.baseUrl.replace(/\/+$/, '').
StripTrailingSlashes(url) ==
    IF url # << >> /\ url[Len(url)] = "/"
    THEN StripTrailingSlashes(SubSeq(url, 1, Len(url) - 1))
    ELSE url

\* Lines 15-26: the fields the constructor sets from the options that are
\* not chosen elsewhere: the base address and the exchange primitive.
Constructed(urlOption, fetchOption) ==
    /\ baseUrl = StripTrailingSlashes(urlOption)
    /\ fetchImpl = IF fetchOption = "absent" THEN "global" ELSE fetchOption

RECURSIVE Pow(_, _)
\* Math.pow on non-negative integer exponents.
Pow(b, e) == IF e <= 0 THEN 1 ELSE b * Pow(b, e - 1)

\* Response.ok: status in 200..299.
ResponseOk(status) == status >= 200 /\ status <= 299

\* shouldRetry without the test of the method.
shouldRetry_anyMethod(m, status) ==
    status = 429 \/ (status >= 500 /\ status < 600)

\* shouldRetry taking every error status for a retryable one.
shouldRetry_anyErrorStatus(m, status) ==
    IF m \notin {"GET", "HEAD", "PUT", "DELETE"}
    THEN FALSE
    ELSE status >= 400

\* Transport.shouldRetry.
shouldRetry(m, status) ==
    IF m \notin {"GET", "HEAD", "PUT", "DELETE"}
    THEN FALSE
    ELSE status = 429 \/ (status >= 500 /\ status < 600)

\* The delay with a one-based exponent.
backoffDelay_oneBased(cfg, n) == cfg.minDelayMs * Pow(cfg.factor, n + 1)

\* The argument of this.delay in both retry branches.
backoffDelay(cfg, n) == cfg.minDelayMs * Pow(cfg.factor, n)

\* Transport.getDefaultErrorCode.
getDefaultErrorCode(status) ==
    CASE status = 400 -> "BAD_REQUEST"
      [] status = 401 -> "UNAUTHORIZED"
      [] status = 403 -> "FORBIDDEN"
      [] status = 404 -> "NOT_FOUND"
      [] status = 409 -> "CONFLICT"
      [] status = 422 -> "VALIDATION_ERROR"
      [] status = 429 -> "RATE_LIMITED"
      [] status = 500 -> "INTERNAL_ERROR"
      [] status = 502 -> "BAD_GATEWAY"
      [] status = 503 -> "SERVICE_UNAVAILABLE"
      [] status = 504 -> "GATEWAY_TIMEOUT"
      [] OTHER -> "UNKNOWN_ERROR"

\* Messages are pairs <<text, number>>; "HTTP <status>" is <<"HTTP", status>>.
HttpMessage(status) == << "HTTP", status >>

\* new ApiError(message, status, code).
ApiError(message, status, code) ==
    [kind |-> "ApiError", status |-> status, code |-> code,
     message |-> message, details |-> "undefined", val |-> "none"]

\* A resolved call.
Resolved(v) ==
    [kind |-> "value", status |-> 0, code |-> "none",
     message |-> << "none", 0 >>, details |-> "undefined", val |-> v]

\* An exception that is not an ApiError leaving request.
RawException ==
    [kind |-> "raw", status |-> 0, code |-> "none",
     message |-> << "provider failed", 0 >>, details |-> "undefined",
     val |-> "none"]

NoResult ==
    [kind |-> "pending", status |-> 0, code |-> "none",
     message |-> << "none", 0 >>, details |-> "undefined", val |-> "none"]

\* A normalizer that takes the body's fields only when both code and
\* message are present.
createApiError_allOrNothing(status, body) ==
    LET structured == body.valid /\ body.message # "none" /\ body.code # "none"
        message == IF structured
                   THEN << body.message, 0 >>
                   ELSE HttpMessage(status)
        code == IF structured THEN body.code ELSE getDefaultErrorCode(status)
        details == IF structured /\ body.details # "none"
                   THEN body.details
                   ELSE "undefined"
    IN  [ApiError(message, status, code) EXCEPT !.details = details]

\* Transport.createApiError, given what response.json() yields.  Each of
\* message and code falls back on its own (??); details is copied.
createApiError(status, body) ==
    LET message == IF body.valid /\ body.message # "none"
                   THEN << body.message, 0 >>
                   ELSE HttpMessage(status)
        code == IF body.valid /\ body.code # "none"
                THEN body.code
                ELSE getDefaultErrorCode(status)
        details == IF body.valid /\ body.details # "none"
                   THEN body.details
                   ELSE "undefined"
    IN  [ApiError(message, status, code) EXCEPT !.details = details]

\* ----------------------------------------------------- Transport.request

\* The catch branch of request for a thrown ApiError: re-throw.
Raise(err) ==
    /\ pc' = "failed"
    /\ result' = err

\* A backoff that waits minDelayMs every time.
EnterBackoff_constantDelay ==
    /\ pc' = "waiting"
    /\ waits' = Append(waits, retryConfig.minDelayMs)
    /\ UNCHANGED result

\* Both retry branches: await this.delay(minDelayMs * factor^attempt).
\* attempt++ follows when the delay has elapsed (DelayElapses).
EnterBackoff ==
    /\ pc' = "waiting"
    /\ waits' = Append(waits, backoffDelay(retryConfig, attempt))
    /\ UNCHANGED result

\* Lines 36-41: the token is read before the loop.  A provider function is
\* invoked and awaited; a plain value is used as it is.
ResolveToken ==
    /\ pc = "start"
    /\ IF getToken = "provider"
       THEN /\ tokenCalls' = tokenCalls + 1
            /\ pc' = "awaitToken"
            /\ UNCHANGED token
       ELSE /\ token' = << "static", 0 >>
            /\ pc' = "loop"
            /\ UNCHANGED tokenCalls
    /\ UNCHANGED << okBody, errBody, method, baseUrl, fetchImpl,
                    retryConfig, timeoutMs, getToken, attempt,
                    sentTokens, exchanges, openExchanges, timer, timersArmed,
                    timerFired, response, statusLog, waits, result >>
    /\ UNCHANGED << svars, cvars, evars, gvars >>

\* The provider's promise fulfils: the i-th invocation yields token i.
TokenResolves ==
    /\ pc = "awaitToken"
    /\ token' = << "provider", tokenCalls >>
    /\ pc' = "loop"
    /\ UNCHANGED << okBody, errBody, method, baseUrl, fetchImpl,
                    retryConfig, timeoutMs, getToken, attempt,
                    tokenCalls, sentTokens, exchanges, openExchanges, timer,
                    timersArmed, timerFired, response, statusLog, waits,
                    result >>
    /\ UNCHANGED << svars, cvars, evars, gvars >>

\* The provider throws or its promise rejects: line 40 is outside the try
\* block, so the exception leaves request as it is.
TokenRejects ==
    /\ pc = "awaitToken"
    /\ pc' = "failed"
    /\ result' = RawException
    /\ UNCHANGED << okBody, errBody, method, baseUrl, fetchImpl,
                    retryConfig, timeoutMs, getToken, attempt, token,
                    tokenCalls, sentTokens, exchanges, openExchanges, timer,
                    timersArmed, timerFired, response, statusLog, waits >>
    /\ UNCHANGED << svars, cvars, evars, gvars >>

\* A do-while loop: the first attempt is made before the budget is tested.
StartAttempt_alwaysOnce ==
    /\ pc = "loop"
    /\ IF attempt = 0 \/ attempt <= retryConfig.attempts
       THEN /\ pc' = "inflight"
            /\ timer' = timeoutMs
            /\ timersArmed' = Append(timersArmed, timeoutMs)
            /\ timerFired' = FALSE
            /\ exchanges' = exchanges + 1
            /\ openExchanges' = openExchanges + 1
            /\ sentTokens' = Append(sentTokens, token)
            /\ UNCHANGED result
       ELSE /\ Raise(ApiError(<< "Max retry attempts exceeded", 0 >>, 500,
                              "MAX_RETRIES_EXCEEDED"))
            /\ UNCHANGED << timer, timersArmed, timerFired, exchanges,
                            openExchanges, sentTokens >>
    /\ UNCHANGED << okBody, errBody, method, baseUrl, fetchImpl,
                    retryConfig, timeoutMs, getToken, attempt, token,
                    tokenCalls, response, statusLog, waits >>
    /\ UNCHANGED << svars, cvars, evars, gvars >>

\* The loop entered only while attempt < maxAttempts.
StartAttempt_strictGuard ==
    /\ pc = "loop"
    /\ IF attempt < retryConfig.attempts
       THEN /\ pc' = "inflight"
            /\ timer' = timeoutMs
            /\ timersArmed' = Append(timersArmed, timeoutMs)
            /\ timerFired' = FALSE
            /\ exchanges' = exchanges + 1
            /\ openExchanges' = openExchanges + 1
            /\ sentTokens' = Append(sentTokens, token)
            /\ UNCHANGED result
       ELSE /\ Raise(ApiError(<< "Max retry attempts exceeded", 0 >>, 500,
                              "MAX_RETRIES_EXCEEDED"))
            /\ UNCHANGED << timer, timersArmed, timerFired, exchanges,
                            openExchanges, sentTokens >>
    /\ UNCHANGED << okBody, errBody, method, baseUrl, fetchImpl,
                    retryConfig, timeoutMs, getToken,
                    attempt, token, tokenCalls, response, statusLog, waits >>
    /\ UNCHANGED << svars, cvars, evars, gvars >>

\* The next attempt started without awaiting the backoff delay.
StartAttempt_duringWait ==
    /\ pc \in {"loop", "waiting"}
    /\ attempt <= retryConfig.attempts
    /\ pc' = "inflight"
    /\ timer' = timeoutMs
    /\ timersArmed' = Append(timersArmed, timeoutMs)
    /\ timerFired' = FALSE
    /\ exchanges' = exchanges + 1
    /\ openExchanges' = openExchanges + 1
    /\ sentTokens' = Append(sentTokens, token)
    /\ UNCHANGED << okBody, errBody, method, baseUrl, fetchImpl,
                    retryConfig, timeoutMs, getToken,
                    attempt, token, tokenCalls, response, statusLog, waits,
                    result >>
    /\ UNCHANGED << svars, cvars, evars, gvars >>

\* Line 46 and makeRequest up to the await of fetchImpl: when the loop guard
\* holds, a new AbortController and a new timer of timeoutMs are created and
\* the exchange is issued with the token held in the local variable.  When
\* the guard fails the loop is left and line 96 throws.
StartAttempt ==
    /\ pc = "loop"
    /\ IF attempt <= retryConfig.attempts
       THEN /\ pc' = "inflight"
            /\ timer' = timeoutMs
            /\ timersArmed' = Append(timersArmed, timeoutMs)
            /\ timerFired' = FALSE
            /\ exchanges' = exchanges + 1
            /\ openExchanges' = openExchanges + 1
            /\ sentTokens' = Append(sentTokens, token)
            /\ UNCHANGED result
       ELSE /\ Raise(ApiError(<< "Max retry attempts exceeded", 0 >>, 500,
                              "MAX_RETRIES_EXCEEDED"))
            /\ UNCHANGED << timer, timersArmed, timerFired, exchanges,
                            openExchanges, sentTokens >>
    /\ UNCHANGED << okBody, errBody, method, baseUrl, fetchImpl,
                    retryConfig, timeoutMs, getToken, attempt, token,
                    tokenCalls, response, statusLog, waits >>
    /\ UNCHANGED << svars, cvars, evars, gvars >>

\* Time passes while the exchange is in flight.
Tick ==
    /\ pc = "inflight"
    /\ timer > 1
    /\ timer' = timer - 1
    /\ UNCHANGED << okBody, errBody, method, baseUrl, fetchImpl,
                    retryConfig, timeoutMs, getToken, pc, attempt,
                    token, tokenCalls, sentTokens, exchanges, openExchanges,
                    timersArmed, timerFired, response, statusLog, waits,
                    result >>
    /\ UNCHANGED << svars, cvars, evars, gvars >>

\* Line 109: the timer runs out and its callback calls controller.abort();
\* fetch closes the exchange and rejects with an AbortError.
TimeoutFires ==
    /\ pc = "inflight"
    /\ timer = 1
    /\ timer' = 0
    /\ timerFired' = TRUE
    /\ openExchanges' = openExchanges - 1
    /\ statusLog' = Append(statusLog, -1)
    /\ pc' = "aborted"
    /\ UNCHANGED << okBody, errBody, method, baseUrl, fetchImpl,
                    retryConfig, timeoutMs, getToken, attempt, token,
                    tokenCalls, sentTokens, exchanges, timersArmed, response,
                    waits, result >>
    /\ UNCHANGED << svars, cvars, evars, gvars >>

\* The abort handled like a retryable failure: backoff while attempts remain.
HandleAbort_retries ==
    /\ pc = "aborted"
    /\ timer' = 0
    /\ IF method \in {"GET", "HEAD", "PUT", "DELETE"}
          /\ attempt < retryConfig.attempts
       THEN EnterBackoff
       ELSE /\ Raise(ApiError(<< "Request timeout", 0 >>, 408, "TIMEOUT"))
            /\ UNCHANGED waits
    /\ UNCHANGED << okBody, errBody, method, baseUrl, fetchImpl,
                    retryConfig, timeoutMs, getToken,
                    attempt, token, tokenCalls, sentTokens, exchanges,
                    openExchanges, timersArmed, timerFired, response,
                    statusLog >>
    /\ UNCHANGED << svars, cvars, evars, gvars >>

\* The abort not recognised: it falls through to the unclassified failure.
HandleAbort_asNetworkError ==
    /\ pc = "aborted"
    /\ timer' = 0
    /\ Raise(ApiError(<< "The operation was aborted", 0 >>, 500,
                      "NETWORK_ERROR"))
    /\ UNCHANGED << okBody, errBody, method, baseUrl, fetchImpl,
                    retryConfig, timeoutMs, getToken,
                    attempt, token, tokenCalls, sentTokens, exchanges,
                    openExchanges, timersArmed, timerFired, response,
                    statusLog, waits >>
    /\ UNCHANGED << svars, cvars, evars, gvars >>

\* Lines 123-125 and 76-78: the rejection passes the finally block
\* (clearTimeout) and reaches the catch branch, which throws TIMEOUT.
HandleAbort ==
    /\ pc = "aborted"
    /\ timer' = 0
    /\ Raise(ApiError(<< "Request timeout", 0 >>, 408, "TIMEOUT"))
    /\ UNCHANGED << okBody, errBody, method, baseUrl, fetchImpl,
                    retryConfig, timeoutMs, getToken, attempt, token,
                    tokenCalls, sentTokens, exchanges, openExchanges,
                    timersArmed, timerFired, response, statusLog, waits >>
    /\ UNCHANGED << svars, cvars, evars, gvars >>

\* A makeRequest without the finally block: the timer of an attempt stays
\* pending after its response has arrived.
FetchResponds_keepsTimer ==
    /\ pc = "inflight"
    /\ \E s \in Statuses :
        /\ timer' = timer
        /\ openExchanges' = openExchanges - 1
        /\ statusLog' = Append(statusLog, s)
        /\ response' = s
        /\ IF ResponseOk(s)
           THEN IF s = 204
                THEN /\ pc' = "done"
                     /\ result' = Resolved("undefined")
                     /\ UNCHANGED waits
                ELSE /\ pc' = "decoding"
                     /\ UNCHANGED << result, waits >>
           ELSE IF shouldRetry(method, s) /\ attempt < retryConfig.attempts
                THEN EnterBackoff
                ELSE /\ pc' = "errbody"
                     /\ UNCHANGED << result, waits >>
    /\ UNCHANGED << okBody, errBody, method, baseUrl, fetchImpl,
                    retryConfig, timeoutMs, getToken, attempt, token,
                    tokenCalls, sentTokens, exchanges, timersArmed,
                    timerFired >>
    /\ UNCHANGED << svars, cvars, evars, gvars >>

\* A success branch without the test for 204: every OK response is decoded.
FetchResponds_decodes204 ==
    /\ pc = "inflight"
    /\ \E s \in Statuses :
        /\ timer' = 0
        /\ openExchanges' = openExchanges - 1
        /\ statusLog' = Append(statusLog, s)
        /\ response' = s
        /\ IF ResponseOk(s)
           THEN /\ pc' = "decoding"
                /\ UNCHANGED << result, waits >>
           ELSE IF shouldRetry(method, s) /\ attempt < retryConfig.attempts
                THEN EnterBackoff
                ELSE /\ pc' = "errbody"
                     /\ UNCHANGED << result, waits >>
    /\ UNCHANGED << okBody, errBody, method, baseUrl, fetchImpl,
                    retryConfig, timeoutMs, getToken,
                    attempt, token, tokenCalls, sentTokens, exchanges,
                    timersArmed, timerFired >>
    /\ UNCHANGED << svars, cvars, evars, gvars >>

\* Lines 112-125 and 50-68: fetchImpl fulfils with a response of status s.
\* The finally block clears the timer.  An OK response is returned (204) or
\* decoded; a non-OK response is retried or turned into an ApiError.
FetchResponds ==
    /\ pc = "inflight"
    /\ \E s \in Statuses :
        /\ timer' = 0
        /\ openExchanges' = openExchanges - 1
        /\ statusLog' = Append(statusLog, s)
        /\ response' = s
        /\ IF ResponseOk(s)
           THEN IF s = 204
                THEN /\ pc' = "done"
                     /\ result' = Resolved("undefined")
                     /\ UNCHANGED waits
                ELSE /\ pc' = "decoding"
                     /\ UNCHANGED << result, waits >>
           ELSE IF shouldRetry(method, s) /\ attempt < retryConfig.attempts
                THEN EnterBackoff
                ELSE /\ pc' = "errbody"
                     /\ UNCHANGED << result, waits >>
    /\ UNCHANGED << okBody, errBody, method, baseUrl, fetchImpl,
                    retryConfig, timeoutMs, getToken, attempt, token,
                    tokenCalls, sentTokens, exchanges, timersArmed,
                    timerFired >>
    /\ UNCHANGED << svars, cvars, evars, gvars >>

\* Lines 56-57: response.json().catch(() => ({})) settles.
DecodeBody ==
    /\ pc = "decoding"
    /\ \E b \in OkBodies :
        /\ okBody' = b
        /\ result' = Resolved(IF b = "invalid" THEN "emptyObject" ELSE b)
    /\ pc' = "done"
    /\ UNCHANGED << errBody, method, baseUrl, fetchImpl,
                    retryConfig, timeoutMs, getToken, attempt, token,
                    tokenCalls, sentTokens, exchanges, openExchanges, timer,
                    timersArmed, timerFired, response, statusLog, waits >>
    /\ UNCHANGED << svars, cvars, evars, gvars >>

\* An error built from the first response of the call, not the last.
ThrowApiError_firstResponse ==
    /\ pc = "errbody"
    /\ \E b \in ErrBodies :
        /\ errBody' = b
        /\ Raise(createApiError(statusLog[1], b))
    /\ UNCHANGED << okBody, method, baseUrl, fetchImpl, retryConfig,
                    timeoutMs, getToken, attempt, token, tokenCalls,
                    sentTokens, exchanges, openExchanges, timer, timersArmed,
                    timerFired, response, statusLog, waits >>
    /\ UNCHANGED << svars, cvars, evars, gvars >>

\* Lines 68 and 72-74: createApiError reads the body, the ApiError is thrown
\* inside the try block and re-thrown by the catch branch.
ThrowApiError ==
    /\ pc = "errbody"
    /\ \E b \in ErrBodies :
        /\ errBody' = b
        /\ Raise(createApiError(response, b))
    /\ UNCHANGED << okBody, method, baseUrl, fetchImpl,
                    retryConfig, timeoutMs, getToken, attempt, token,
                    tokenCalls, sentTokens, exchanges, openExchanges, timer,
                    timersArmed, timerFired, response, statusLog, waits >>
    /\ UNCHANGED << svars, cvars, evars, gvars >>

\* Lines 70-91: fetchImpl rejects although no abort happened (DNS failure,
\* connection reset).  The thrown value is no ApiError and no AbortError, so
\* the retry test runs with status 0.
FetchRejects ==
    /\ pc = "inflight"
    /\ \E k \in ThrownKinds :
        /\ timer' = 0
        /\ openExchanges' = openExchanges - 1
        /\ statusLog' = Append(statusLog, 0)
        /\ IF shouldRetry(method, 0) /\ attempt < retryConfig.attempts
           THEN EnterBackoff
           ELSE Raise(ApiError(IF k = "Error"
                               THEN << "fetch failed", 0 >>
                               ELSE << "Unknown error", 0 >>,
                               500, "NETWORK_ERROR"))
                /\ UNCHANGED waits
    /\ UNCHANGED << okBody, errBody, method, baseUrl, fetchImpl,
                    retryConfig, timeoutMs, getToken, attempt, token,
                    tokenCalls, sentTokens, exchanges, timersArmed,
                    timerFired, response >>
    /\ UNCHANGED << svars, cvars, evars, gvars >>

\* The token read inside the loop: every attempt resolves it again.
DelayElapses_resolvesTokenAgain ==
    /\ pc = "waiting"
    /\ attempt' = attempt + 1
    /\ IF getToken = "provider"
       THEN /\ tokenCalls' = tokenCalls + 1
            /\ token' = << "provider", tokenCalls + 1 >>
       ELSE UNCHANGED << tokenCalls, token >>
    /\ pc' = "loop"
    /\ UNCHANGED << okBody, errBody, method, baseUrl, fetchImpl,
                    retryConfig, timeoutMs, getToken,
                    sentTokens, exchanges, openExchanges, timer, timersArmed,
                    timerFired, response, statusLog, waits, result >>
    /\ UNCHANGED << svars, cvars, evars, gvars >>

\* A retry that uses up the policy instead of counting attempts: the
\* instance's retryConfig.attempts is decremented.
DelayElapses_consumesBudget ==
    /\ pc = "waiting"
    /\ retryConfig' = [retryConfig EXCEPT !.attempts = @ - 1]
    /\ pc' = "loop"
    /\ UNCHANGED << okBody, errBody, method, baseUrl, fetchImpl, timeoutMs,
                    getToken, attempt, token, tokenCalls, sentTokens,
                    exchanges, openExchanges, timer, timersArmed, timerFired,
                    response, statusLog, waits, result >>
    /\ UNCHANGED << svars, cvars, evars, gvars >>

\* A retry that counts two attempts at once.
DelayElapses_countsTwice ==
    /\ pc = "waiting"
    /\ attempt' = attempt + 2
    /\ pc' = "loop"
    /\ UNCHANGED << okBody, errBody, method, baseUrl, fetchImpl, retryConfig,
                    timeoutMs, getToken, token, tokenCalls, sentTokens,
                    exchanges, openExchanges, timer, timersArmed, timerFired,
                    response, statusLog, waits, result >>
    /\ UNCHANGED << svars, cvars, evars, gvars >>

\* Lines 62-64 and 81-83: the delay has elapsed; attempt++ and continue.
DelayElapses ==
    /\ pc = "waiting"
    /\ attempt' = attempt + 1
    /\ pc' = "loop"
    /\ UNCHANGED << okBody, errBody, method, baseUrl, fetchImpl,
                    retryConfig, timeoutMs, getToken, token,
                    tokenCalls, sentTokens, exchanges, openExchanges, timer,
                    timersArmed, timerFired, response, statusLog, waits,
                    result >>
    /\ UNCHANGED << svars, cvars, evars, gvars >>

\* ------------------------------------------------------------------ Spec

\* subscribeNodeSSE before connect() has run.
SseStart ==
    /\ isActive = TRUE
    /\ controller = "live"
    /\ signalAborted = FALSE
    /\ ssePc = "init"
    /\ buffer = << >>
    /\ remaining = << >>
    /\ chunk = << >>
    /\ delivered = << >>
    /\ connects = 0
    /\ openChannels = 0
    /\ leaked = 0
    /\ cancels = 0
    /\ disconnect = "none"
    /\ received = << >>
    /\ deliveredAtOpen = 0
    /\ parsedEvents = << >>
    /\ warnings = 0
    /\ lateDeliveries = 0

\* No second call of request is made.
Call2Idle ==
    /\ method2 = "GET"
    /\ pc2 = "none"
    /\ attempt2 = 0
    /\ tokenCalls2 = 0
    /\ exchanges2 = 0
    /\ openExchanges2 = 0
    /\ timer2 = 0
    /\ response2 = 0
    /\ statusLog2 = << >>
    /\ waits2 = << >>
    /\ result2 = NoResult

\* No call of getAll has been made.
GetAllIdle ==
    /\ gaPc = "idle"
    /\ gaParams = [status |-> "undefined", cursor |-> "undefined", limit |-> 0]
    /\ allTickets = << >>
    /\ cursor = "undefined"
    /\ listOpen = 0
    /\ queries = << >>
    /\ pages = << >>
    /\ listFailures = << >>
    /\ noItems = 0
    /\ gaResult = NoResult

\* A Transport constructed with some retry policy, and request just called.
Init ==
    /\ method \in Methods
    /\ retryConfig \in [attempts : AttemptChoices,
                        minDelayMs : MinDelayChoices,
                        factor : FactorChoices]
    /\ \E u \in BaseUrlOptions, f \in FetchOptions : Constructed(u, f)
    /\ timeoutMs = TimeoutTicks
    /\ getToken \in TokenModes
    /\ pc = "start"
    /\ attempt = 0
    /\ token = << "unresolved", 0 >>
    /\ tokenCalls = 0
    /\ sentTokens = << >>
    /\ exchanges = 0
    /\ openExchanges = 0
    /\ timer = 0
    /\ timersArmed = << >>
    /\ timerFired = FALSE
    /\ response = 0
    /\ statusLog = << >>
    /\ waits = << >>
    /\ result = NoResult
    /\ okBody = "none"
    /\ errBody = NoBody
    /\ SseStart
    /\ GetAllIdle
    /\ typed = FALSE
    /\ Call2Idle

Next ==
    \/ ResolveToken
    \/ TokenResolves
    \/ TokenRejects
    \/ StartAttempt
    \/ Tick
    \/ TimeoutFires
    \/ HandleAbort
    \/ FetchResponds
    \/ DecodeBody
    \/ ThrowApiError
    \/ FetchRejects
    \/ DelayElapses

Spec == Init /\ [][Next]_vars

\* ------------------------------------------------- subscribeNodeSSE: text

\* Text is a sequence of one-character strings.  The chunks are ASCII, so
\* TextDecoder.decode(value, {stream: true}) yields the chunk's characters.
Marker == << "d", "a", "t", "a", ":", " " >>

\* What the server may send on one connection.
Streams ==
    { Marker \o << "h", "\n", "\n" >>,
      Marker \o << "a", "\n" >> \o Marker \o << "b", "\n" >>,
      << ":", "c", "\n" >> \o Marker \o << "p" >>,
      Marker \o << "{", "\n" >> \o Marker \o << "b", "\n" >> }

\* JSON.parse of a payload (line 195).  The payloads h, a, b and p stand for
\* JSON texts of events with a type tag; any other text, such as the lone
\* brace, makes JSON.parse throw a SyntaxError.
JsonParse(payload) ==
    CASE payload = << "h" >> -> [throws |-> FALSE, type |-> "heartbeat"]
      [] payload = << "a" >> -> [throws |-> FALSE, type |-> "ticket_created"]
      [] payload = << "b" >> -> [throws |-> FALSE, type |-> "ticket_updated"]
      [] payload = << "p" >> -> [throws |-> FALSE, type |-> "connected"]
      [] OTHER -> [throws |-> TRUE, type |-> "none"]

\* JSON.parse returns instead of throwing.
Parses(payload) == ~JsonParse(payload).throws

\* What the caller's onMessage does with one event: return, throw, or call
\* the subscription's cleanup function.
HandlerBehaviours == {"return", "throw", "cancel"}

\* Index of the first "\n" of t, 0 when there is none.
IndexOfNewline(t) ==
    IF \E i \in 1 .. Len(t) : t[i] = "\n"
    THEN CHOOSE i \in 1 .. Len(t) :
            /\ t[i] = "\n"
            /\ \A j \in 1 .. (i - 1) : t[j] # "\n"
    ELSE 0

RECURSIVE SplitLines(_)
\* String.prototype.split('\n'): the pieces between the newlines, at least one.
SplitLines(t) ==
    LET i == IndexOfNewline(t)
    IN  IF i = 0
        THEN << t >>
        ELSE << SubSeq(t, 1, i - 1) >> \o SplitLines(SubSeq(t, i + 1, Len(t)))

\* lines.pop() || '': the piece after the last newline.
LastPiece(lines) == lines[Len(lines)]

\* The lines left in the array after pop().
CompleteLines(lines) == SubSeq(lines, 1, Len(lines) - 1)

\* line.startsWith('data: ')
IsDataLine(line) == Len(line) >= Len(Marker) /\ SubSeq(line, 1, Len(Marker)) = Marker

\* line.slice(6)
Payload(line) == SubSeq(line, Len(Marker) + 1, Len(line))

\* A line loop without the startsWith test: every complete line is sliced
\* and handed to onMessage.
PayloadsOf_allLines(lines) ==
    LET allLines == CompleteLines(lines)
    IN  [i \in 1 .. Len(allLines) |-> Payload(allLines[i])]

\* The data fields handed to onMessage while the lines of one chunk are
\* looped over (lines 115-132), in order.
PayloadsOf(lines) ==
    LET dataLines == SelectSeq(CompleteLines(lines), IsDataLine)
    IN  [i \in 1 .. Len(dataLines) |-> Payload(dataLines[i])]

\* Lines 193-200: what the wrapper of subscribeTypedEvents hands to onEvent
\* for the events of one chunk: the parse result of each payload that parses.
ParsedOf(events) ==
    LET ok == SelectSeq(events, Parses)
    IN  [i \in 1 .. Len(ok) |-> [type |-> JsonParse(ok[i]).type]]

\* The events of a chunk up to the first payload that does not parse.
RECURSIVE UpToMalformed(_)
UpToMalformed(events) ==
    IF events = << >> \/ ~Parses(Head(events))
    THEN << >>
    ELSE << Head(events) >> \o UpToMalformed(Tail(events))

\* ---------------------------------------------- subscribeNodeSSE: actions

\* Lines 134-146, the catch block of connect, for a caught value of the given
\* kind ("Error", "nonError" or "AbortError"): a reconnect timer is set only
\* for an Error that is not an AbortError while the subscription is active.
Caught(kind) ==
    IF isActive /\ kind = "Error"
    THEN ssePc' = "timer"
    ELSE ssePc' = "idle"

\* Lines 78-92: connect() runs up to the await of fetch.
OpenExchange ==
    /\ ssePc' = "fetching"
    /\ connects' = connects + 1
    /\ openChannels' = openChannels + 1
    /\ disconnect' = "none"

\* Line 150: subscribeNodeSSE calls connect() before it returns the handle.
SseConnect ==
    /\ ssePc = "init"
    /\ OpenExchange
    /\ UNCHANGED << isActive, controller, signalAborted, buffer, remaining,
                    chunk, delivered, leaked, cancels >>
    /\ UNCHANGED << tvars, cvars, evars, gvars >>

\* Line 89: the fetch promise settles: an OK response with a body, a non-OK
\* response, a response without a body, or a rejection.
SseFetchSettles ==
    /\ ssePc = "fetching"
    /\ \/ /\ ssePc' = "fetchedOk"
          /\ remaining' \in Streams
          /\ UNCHANGED openChannels
          /\ UNCHANGED disconnect
       \/ /\ ssePc' \in {"fetchedNotOk", "fetchedNoBody"}
          /\ UNCHANGED << remaining, openChannels, disconnect >>
       \/ /\ \E k \in ThrownKinds :
                /\ ssePc' = IF k = "Error" THEN "rejectedError" ELSE "rejectedNonError"
                /\ disconnect' = IF k = "Error" THEN "error" ELSE "nonError"
          /\ openChannels' = openChannels - 1
          /\ UNCHANGED remaining
    /\ UNCHANGED << isActive, controller, signalAborted, buffer, chunk,
                    delivered, connects, leaked, cancels >>
    /\ UNCHANGED << tvars, cvars, evars, gvars >>

\* A buffer declared outside connect: a new connection goes on with the
\* text the previous one left.
SseAfterFetch_keepsBuffer ==
    /\ ssePc \in {"fetchedOk", "fetchedNotOk", "fetchedNoBody"}
    /\ IF ssePc = "fetchedOk"
       THEN /\ UNCHANGED buffer
            /\ received' = << >>
            /\ deliveredAtOpen' = Len(delivered)
            /\ ssePc' = IF isActive THEN "reading" ELSE "idle"
            /\ UNCHANGED << openChannels, leaked, disconnect >>
       ELSE /\ Caught("Error")
            /\ disconnect' = IF disconnect = "cancel" THEN "cancel"
                              ELSE IF ssePc = "fetchedNotOk" THEN "notOk"
                              ELSE "noBody"
            /\ openChannels' = 0
            /\ leaked' = IF ssePc = "fetchedNotOk" /\ openChannels > 0
                         THEN leaked + 1
                         ELSE leaked
            /\ UNCHANGED << buffer, received, deliveredAtOpen >>
    /\ UNCHANGED << isActive, controller, signalAborted, remaining, chunk,
                    delivered, connects, cancels >>
    /\ UNCHANGED << typed, parsedEvents, warnings, lateDeliveries >>
    /\ UNCHANGED << tvars, cvars, gvars >>

\* Lines 94-107: the continuation after fetch.  A non-OK response or a
\* missing body throws into the catch block; the response is dropped without
\* its body being read or cancelled.  Otherwise the buffer is created empty
\* and the first read is issued if the subscription is still active.
SseAfterFetch ==
    /\ ssePc \in {"fetchedOk", "fetchedNotOk", "fetchedNoBody"}
    /\ IF ssePc = "fetchedOk"
       THEN /\ buffer' = << >>
            /\ received' = << >>
            /\ deliveredAtOpen' = Len(delivered)
            /\ ssePc' = IF isActive THEN "reading" ELSE "idle"
            /\ UNCHANGED << openChannels, leaked, disconnect >>
       ELSE /\ Caught("Error")
            /\ disconnect' = IF disconnect = "cancel" THEN "cancel"
                              ELSE IF ssePc = "fetchedNotOk" THEN "notOk"
                              ELSE "noBody"
            /\ openChannels' = 0
            /\ leaked' = IF ssePc = "fetchedNotOk" /\ openChannels > 0
                         THEN leaked + 1
                         ELSE leaked
            /\ UNCHANGED << buffer, received, deliveredAtOpen >>
    /\ UNCHANGED << isActive, controller, signalAborted, remaining, chunk,
                    delivered, connects, cancels >>
    /\ UNCHANGED << typed, parsedEvents, warnings, lateDeliveries >>
    /\ UNCHANGED << tvars, cvars, gvars >>

\* Line 107: reader.read() settles: with the next n characters of the
\* stream, with done (the server ended the stream), or with a rejection.
SseReadSettles ==
    /\ ssePc = "reading"
    /\ \/ /\ \E n \in 1 .. Len(remaining) :
                /\ chunk' = SubSeq(remaining, 1, n)
                /\ remaining' = SubSeq(remaining, n + 1, Len(remaining))
          /\ ssePc' = "chunkReady"
          /\ UNCHANGED << openChannels, disconnect >>
       \/ /\ ssePc' = "readDone"
          /\ disconnect' = "done"
          /\ openChannels' = openChannels - 1
          /\ UNCHANGED << chunk, remaining >>
       \/ /\ \E k \in ThrownKinds :
                /\ ssePc' = IF k = "Error" THEN "rejectedError" ELSE "rejectedNonError"
                /\ disconnect' = IF k = "Error" THEN "error" ELSE "nonError"
          /\ openChannels' = openChannels - 1
          /\ UNCHANGED << chunk, remaining >>
    /\ UNCHANGED << isActive, controller, signalAborted, buffer, delivered,
                    connects, leaked, cancels >>
    /\ UNCHANGED << tvars, cvars, evars, gvars >>

\* A cleanup function that flips isActive instead of clearing it.
CleanupEffect_toggles(called) ==
    /\ isActive' = IF called THEN ~isActive ELSE isActive
    /\ controller' = IF called THEN "null" ELSE controller
    /\ signalAborted' = IF called /\ controller = "live"
                        THEN TRUE
                        ELSE signalAborted
    /\ openChannels' = IF called /\ controller = "live" THEN 0 ELSE openChannels
    /\ disconnect' = IF called /\ controller = "live" /\ openChannels > 0
                     THEN "cancel"
                     ELSE disconnect
    /\ leaked' = IF called /\ controller = "live" THEN 0 ELSE leaked

\* Lines 152-159 run from inside onMessage: the effect of the cleanup
\* function on the closure variables when `called` holds.  Every response of
\* the subscription was fetched with the one controller's signal (line 91),
\* so abort() also ends the bodies of responses that were dropped unread.
CleanupEffect(called) ==
    /\ isActive' = IF called THEN FALSE ELSE isActive
    /\ controller' = IF called THEN "null" ELSE controller
    /\ signalAborted' = IF called /\ controller = "live"
                        THEN TRUE
                        ELSE signalAborted
    /\ openChannels' = IF called /\ controller = "live" THEN 0 ELSE openChannels
    /\ disconnect' = IF called /\ controller = "live" /\ openChannels > 0
                     THEN "cancel"
                     ELSE disconnect
    /\ leaked' = IF called /\ controller = "live" THEN 0 ELSE leaked

\* A line loop without try/catch: an exception of onMessage leaves the
\* loops and reaches the catch block of connect; the events after the one
\* that threw are not handed over.
SseProcessChunk_throwEndsLoop ==
    /\ ssePc = "chunkReady"
    /\ LET lines == SplitLines(buffer \o chunk)
           events == PayloadsOf(lines)
       IN  /\ buffer' = LastPiece(lines)
           /\ \E plan \in [1 .. Len(events) -> HandlerBehaviours] :
                LET unparsed == {i \in 1 .. Len(events) :
                                    typed /\ ~Parses(events[i])}
                    thrown == {i \in 1 .. Len(events) : plan[i] = "throw"}
                    first == IF thrown = {}
                             THEN Len(events)
                             ELSE CHOOSE i \in thrown : \A j \in thrown : i <= j
                    handed == SubSeq(events, 1, first)
                    calls == Cardinality({i \in 1 .. first : plan[i] = "cancel"})
                    late == {i \in 1 .. first :
                                \/ ~isActive
                                \/ \E j \in 1 .. (i - 1) : plan[j] = "cancel"}
                IN  /\ \A i \in unparsed : plan[i] = "return"
                    /\ delivered' = delivered \o handed
                    /\ parsedEvents' = IF typed
                                       THEN parsedEvents \o ParsedOf(handed)
                                       ELSE parsedEvents
                    /\ lateDeliveries' = lateDeliveries + Cardinality(late)
                    /\ cancels + calls <= MaxCancels
                    /\ cancels' = cancels + calls
                    /\ CleanupEffect(calls > 0)
                    /\ warnings' = warnings
                                    + Cardinality({i \in unparsed : i <= first})
                                    + (IF thrown = {} THEN 0 ELSE 1)
                    /\ ssePc' = IF thrown # {} THEN "rejectedError"
                                ELSE IF isActive /\ calls = 0 THEN "reading"
                                ELSE "idle"
    /\ chunk' = << >>
    /\ received' = received \o chunk
    /\ UNCHANGED << remaining, connects, deliveredAtOpen, typed >>
    /\ UNCHANGED << tvars, cvars, gvars >>

\* A read loop that keeps no incomplete line between two reads.
SseProcessChunk_dropsBuffer ==
    /\ ssePc = "chunkReady"
    /\ LET lines == SplitLines(buffer \o chunk)
           events == PayloadsOf(lines)
       IN  /\ buffer' = << >>
           /\ delivered' = delivered \o events
           /\ parsedEvents' = IF typed
                              THEN parsedEvents \o ParsedOf(events)
                              ELSE parsedEvents
           /\ \E plan \in [1 .. Len(events) -> HandlerBehaviours] :
                LET unparsed == {i \in 1 .. Len(events) :
                                    typed /\ ~Parses(events[i])}
                    calls == Cardinality({i \in 1 .. Len(events) :
                                             plan[i] = "cancel"})
                    thrown == {i \in 1 .. Len(events) : plan[i] = "throw"}
                    late == {i \in 1 .. Len(events) :
                                \/ ~isActive
                                \/ \E j \in 1 .. (i - 1) : plan[j] = "cancel"}
                IN  /\ \A i \in unparsed : plan[i] = "return"
                    /\ lateDeliveries' = lateDeliveries + Cardinality(late)
                    /\ cancels + calls <= MaxCancels
                    /\ cancels' = cancels + calls
                    /\ CleanupEffect(calls > 0)
                    /\ warnings' = warnings + Cardinality(unparsed \cup thrown)
                    /\ ssePc' = IF isActive /\ calls = 0 THEN "reading" ELSE "idle"
    /\ chunk' = << >>
    /\ received' = received \o chunk
    /\ UNCHANGED << remaining, connects, deliveredAtOpen, typed >>
    /\ UNCHANGED << tvars, cvars, gvars >>


\* A read loop that gives up the rest of a chunk at a payload that does not
\* parse.
SseProcessChunk_stopsAtMalformed ==
    /\ ssePc = "chunkReady"
    /\ LET lines == SplitLines(buffer \o chunk)
           events == IF typed
                     THEN UpToMalformed(PayloadsOf(lines))
                     ELSE PayloadsOf(lines)
       IN  /\ buffer' = LastPiece(lines)
           /\ delivered' = delivered \o events
           /\ parsedEvents' = IF typed
                              THEN parsedEvents \o ParsedOf(events)
                              ELSE parsedEvents
           /\ \E plan \in [1 .. Len(events) -> HandlerBehaviours] :
                LET unparsed == {i \in 1 .. Len(events) :
                                    typed /\ ~Parses(events[i])}
                    calls == Cardinality({i \in 1 .. Len(events) :
                                             plan[i] = "cancel"})
                    thrown == {i \in 1 .. Len(events) : plan[i] = "throw"}
                    late == {i \in 1 .. Len(events) :
                                \/ ~isActive
                                \/ \E j \in 1 .. (i - 1) : plan[j] = "cancel"}
                IN  /\ \A i \in unparsed : plan[i] = "return"
                    /\ lateDeliveries' = lateDeliveries + Cardinality(late)
                    /\ cancels + calls <= MaxCancels
                    /\ cancels' = cancels + calls
                    /\ CleanupEffect(calls > 0)
                    /\ warnings' = warnings + Cardinality(unparsed \cup thrown)
                    /\ ssePc' = IF isActive /\ calls = 0 THEN "reading" ELSE "idle"
    /\ chunk' = << >>
    /\ received' = received \o chunk
    /\ UNCHANGED << remaining, connects, deliveredAtOpen, typed >>
    /\ UNCHANGED << tvars, cvars, gvars >>


\* Lines 111-133 and the loop test of line 106: the chunk is appended to the
\* buffer, the text is split, the last piece is kept, every complete data
\* line is handed to onMessage inside try/catch, and the loop test decides
\* whether another read is issued.  plan[i] is what onMessage does with the
\* i-th event of the chunk.  In a typed subscription onMessage
\* is the wrapper of lines 193-200: a payload that does not parse is reported
\* and onEvent is not called for it; plan[i] is then what onEvent does.  Both
\* catch blocks (lines 128 and 197) report with console.warn.  Neither the
\* for loop nor the code between the read and the loop tests isActive, so an
\* event is handed over also when the cleanup function has already run.
SseProcessChunk ==
    /\ ssePc = "chunkReady"
    /\ LET lines == SplitLines(buffer \o chunk)
           events == PayloadsOf(lines)
       IN  /\ buffer' = LastPiece(lines)
           /\ delivered' = delivered \o events
           /\ parsedEvents' = IF typed
                              THEN parsedEvents \o ParsedOf(events)
                              ELSE parsedEvents
           /\ \E plan \in [1 .. Len(events) -> HandlerBehaviours] :
                LET unparsed == {i \in 1 .. Len(events) :
                                    typed /\ ~Parses(events[i])}
                    calls == Cardinality({i \in 1 .. Len(events) :
                                             plan[i] = "cancel"})
                    thrown == {i \in 1 .. Len(events) : plan[i] = "throw"}
                    late == {i \in 1 .. Len(events) :
                                \/ ~isActive
                                \/ \E j \in 1 .. (i - 1) : plan[j] = "cancel"}
                IN  /\ \A i \in unparsed : plan[i] = "return"
                    /\ lateDeliveries' = lateDeliveries + Cardinality(late)
                    /\ cancels + calls <= MaxCancels
                    /\ cancels' = cancels + calls
                    /\ CleanupEffect(calls > 0)
                    /\ warnings' = warnings + Cardinality(unparsed \cup thrown)
                    /\ ssePc' = IF isActive /\ calls = 0 THEN "reading" ELSE "idle"
    /\ chunk' = << >>
    /\ received' = received \o chunk
    /\ UNCHANGED << remaining, connects, deliveredAtOpen, typed >>
    /\ UNCHANGED << tvars, cvars, gvars >>

\* Line 109: done is true; break leaves the loop and connect() returns.
SseReadDone ==
    /\ ssePc = "readDone"
    /\ ssePc' = "idle"
    /\ UNCHANGED << disconnect, isActive, controller, signalAborted, buffer, remaining,
                    chunk, delivered, connects, openChannels, leaked, cancels >>
    /\ UNCHANGED << tvars, cvars, evars, gvars >>

\* Lines 134-146: a rejection of fetch or of read reaches the catch block.
SseCatch ==
    /\ ssePc \in {"rejectedError", "rejectedNonError", "rejectedAbort"}
    /\ Caught(CASE ssePc = "rejectedError" -> "Error"
                [] ssePc = "rejectedNonError" -> "nonError"
                [] OTHER -> "AbortError")
    /\ UNCHANGED << disconnect, isActive, controller, signalAborted, buffer, remaining,
                    chunk, delivered, connects, openChannels, leaked, cancels >>
    /\ UNCHANGED << tvars, cvars, evars, gvars >>

\* The timer callback without its test of isActive.
SseTimerFires_noActiveTest ==
    /\ ssePc = "timer"
    /\ connects < MaxConnects
    /\ OpenExchange
    /\ UNCHANGED << isActive, controller, signalAborted, buffer, remaining,
                    chunk, delivered, leaked, cancels >>
    /\ UNCHANGED << tvars, cvars, evars, gvars >>

\* Lines 139-143: the 5000 ms timer fires; connect() is called again if the
\* subscription is still active.
SseTimerFires ==
    /\ ssePc = "timer"
    /\ IF isActive
       THEN /\ connects < MaxConnects
            /\ OpenExchange
       ELSE /\ ssePc' = "idle"
            /\ UNCHANGED << connects, openChannels, disconnect >>
    /\ UNCHANGED << isActive, controller, signalAborted, buffer, remaining,
                    chunk, delivered, leaked, cancels >>
    /\ UNCHANGED << tvars, cvars, evars, gvars >>

\* Lines 153-159: the caller invokes the cleanup function (outside
\* onMessage).  abort() makes a pending fetch or read reject with an
\* AbortError and closes the exchange.
SseCancel ==
    /\ ssePc # "init"
    /\ cancels < MaxCancels
    /\ cancels' = cancels + 1
    /\ CleanupEffect(TRUE)
    /\ ssePc' = IF controller = "live" /\ ssePc \in {"fetching", "reading"}
                THEN "rejectedAbort"
                ELSE ssePc
    /\ UNCHANGED << buffer, remaining, chunk, delivered, connects >>
    /\ UNCHANGED << tvars, cvars, evars, gvars >>

\* A response that was dropped unread is released without the code's doing:
\* its body had arrived in full, the server closed the connection, or the
\* runtime collected the response.
SseDroppedBodyReleased ==
    /\ leaked > 0
    /\ leaked' = leaked - 1
    /\ UNCHANGED << isActive, controller, signalAborted, ssePc, buffer,
                    remaining, chunk, delivered, connects, openChannels,
                    cancels, disconnect >>
    /\ UNCHANGED << tvars, cvars, evars, gvars >>

\* --------------------------------------------------------------- SpecSSE

\* A Transport with the default configuration on which no request runs.
TransportIdle ==
    /\ method = "GET"
    /\ retryConfig = [attempts |-> 2, minDelayMs |-> 300, factor |-> 2]
    /\ Constructed(<< "u", "/" >>, "absent")
    /\ timeoutMs = TimeoutTicks
    /\ getToken = "static"
    /\ pc = "start"
    /\ attempt = 0
    /\ token = << "unresolved", 0 >>
    /\ tokenCalls = 0
    /\ sentTokens = << >>
    /\ exchanges = 0
    /\ openExchanges = 0
    /\ timer = 0
    /\ timersArmed = << >>
    /\ timerFired = FALSE
    /\ response = 0
    /\ statusLog = << >>
    /\ waits = << >>
    /\ result = NoResult
    /\ okBody = "none"
    /\ errBody = NoBody

\* A subscription made by subscribeSSE directly or by subscribeTypedEvents.
InitSSE ==
    TransportIdle /\ SseStart /\ typed \in BOOLEAN /\ Call2Idle /\ GetAllIdle

NextSSE ==
    \/ SseConnect
    \/ SseFetchSettles
    \/ SseAfterFetch
    \/ SseReadSettles
    \/ SseProcessChunk
    \/ SseReadDone
    \/ SseCatch
    \/ SseTimerFires
    \/ SseCancel
    \/ SseDroppedBodyReleased

SpecSSE == InitSSE /\ [][NextSSE]_vars

\* ------------------------------------------------- createApiError alone

\* A POST whose only exchange was answered with a non-OK status s: the
\* response is about to be handed to createApiError (line 68).
InitNormalize ==
    /\ method = "POST"
    /\ retryConfig \in [attempts : {0}, minDelayMs : MinDelayChoices,
                        factor : FactorChoices]
    /\ Constructed(<< "u", "/" >>, "absent")
    /\ timeoutMs = TimeoutTicks
    /\ getToken = "static"
    /\ pc = "errbody"
    /\ attempt = 0
    /\ token = << "static", 0 >>
    /\ tokenCalls = 0
    /\ sentTokens = << token >>
    /\ exchanges = 1
    /\ openExchanges = 0
    /\ timer = 0
    /\ timersArmed = << timeoutMs >>
    /\ timerFired = FALSE
    /\ response \in NonOkStatuses
    /\ statusLog = << response >>
    /\ waits = << >>
    /\ result = NoResult
    /\ okBody = "none"
    /\ errBody = NoBody
    /\ SseStart
    /\ GetAllIdle
    /\ typed = FALSE
    /\ Call2Idle

NextNormalize == ThrowApiError

SpecNormalize == InitNormalize /\ [][NextNormalize]_vars

\* ------------------------------------- two calls of request on one Transport

\* Methods of the two concurrent calls: one retried, one not.
ConcMethods == {"GET", "POST"}

\* The second call runs the same code as the first on locals of its own;
\* retryConfig, timeoutMs and getToken are the readonly fields of the shared
\* instance (lines 13-17).

\* Lines 36-41 in the second call.
ResolveToken2 ==
    /\ pc2 = "start"
    /\ IF getToken = "provider"
       THEN /\ tokenCalls2' = tokenCalls2 + 1
            /\ pc2' = "awaitToken"
       ELSE /\ pc2' = "loop"
            /\ UNCHANGED tokenCalls2
    /\ UNCHANGED << method2, attempt2, exchanges2, openExchanges2, timer2,
                    response2, statusLog2, waits2, result2 >>
    /\ UNCHANGED << tvars, svars, evars, gvars >>

\* The provider's promise fulfils for the second call.
TokenResolves2 ==
    /\ pc2 = "awaitToken"
    /\ pc2' = "loop"
    /\ UNCHANGED << method2, attempt2, tokenCalls2, exchanges2, openExchanges2,
                    timer2, response2, statusLog2, waits2, result2 >>
    /\ UNCHANGED << tvars, svars, evars, gvars >>

\* The provider rejects for the second call: the exception leaves request.
TokenRejects2 ==
    /\ pc2 = "awaitToken"
    /\ pc2' = "failed"
    /\ result2' = RawException
    /\ UNCHANGED << method2, attempt2, tokenCalls2, exchanges2, openExchanges2,
                    timer2, response2, statusLog2, waits2 >>
    /\ UNCHANGED << tvars, svars, evars, gvars >>

\* Lines 46-48 and 108-109 in the second call: a fetch and a timer of its
\* own (makeRequest creates a new AbortController and timer per call).
StartAttempt2 ==
    /\ pc2 = "loop"
    /\ IF attempt2 <= retryConfig.attempts
       THEN /\ pc2' = "inflight"
            /\ timer2' = timeoutMs
            /\ exchanges2' = exchanges2 + 1
            /\ openExchanges2' = openExchanges2 + 1
            /\ UNCHANGED result2
       ELSE /\ pc2' = "failed"
            /\ result2' = ApiError(<< "Max retry attempts exceeded", 0 >>, 500,
                                   "MAX_RETRIES_EXCEEDED")
            /\ UNCHANGED << timer2, exchanges2, openExchanges2 >>
    /\ UNCHANGED << method2, attempt2, tokenCalls2, response2, statusLog2,
                    waits2 >>
    /\ UNCHANGED << tvars, svars, evars, gvars >>

\* Time passes while the second call's exchange is in flight.
Tick2 ==
    /\ pc2 = "inflight"
    /\ timer2 > 1
    /\ timer2' = timer2 - 1
    /\ UNCHANGED << method2, pc2, attempt2, tokenCalls2, exchanges2,
                    openExchanges2, response2, statusLog2, waits2, result2 >>
    /\ UNCHANGED << tvars, svars, evars, gvars >>

\* Line 109 in the second call: its timer aborts its exchange.
TimeoutFires2 ==
    /\ pc2 = "inflight"
    /\ timer2 = 1
    /\ timer2' = 0
    /\ openExchanges2' = openExchanges2 - 1
    /\ statusLog2' = Append(statusLog2, -1)
    /\ pc2' = "aborted"
    /\ UNCHANGED << method2, attempt2, tokenCalls2, exchanges2, response2,
                    waits2, result2 >>
    /\ UNCHANGED << tvars, svars, evars, gvars >>

\* Lines 76-78 in the second call.
HandleAbort2 ==
    /\ pc2 = "aborted"
    /\ pc2' = "failed"
    /\ result2' = ApiError(<< "Request timeout", 0 >>, 408, "TIMEOUT")
    /\ UNCHANGED << method2, attempt2, tokenCalls2, exchanges2, openExchanges2,
                    timer2, response2, statusLog2, waits2 >>
    /\ UNCHANGED << tvars, svars, evars, gvars >>

\* Lines 50-68 in the second call.
FetchResponds2 ==
    /\ pc2 = "inflight"
    /\ \E s \in Statuses :
        /\ timer2' = 0
        /\ openExchanges2' = openExchanges2 - 1
        /\ statusLog2' = Append(statusLog2, s)
        /\ response2' = s
        /\ IF ResponseOk(s)
           THEN IF s = 204
                THEN /\ pc2' = "done"
                     /\ result2' = Resolved("undefined")
                     /\ UNCHANGED waits2
                ELSE /\ pc2' = "decoding"
                     /\ UNCHANGED << result2, waits2 >>
           ELSE IF shouldRetry(method2, s) /\ attempt2 < retryConfig.attempts
                THEN /\ pc2' = "waiting"
                     /\ waits2' = Append(waits2,
                                         backoffDelay(retryConfig, attempt2))
                     /\ UNCHANGED result2
                ELSE /\ pc2' = "errbody"
                     /\ UNCHANGED << result2, waits2 >>
    /\ UNCHANGED << method2, attempt2, tokenCalls2, exchanges2 >>
    /\ UNCHANGED << tvars, svars, evars, gvars >>

\* Lines 56-57 in the second call.
DecodeBody2 ==
    /\ pc2 = "decoding"
    /\ \E b \in OkBodies :
        result2' = Resolved(IF b = "invalid" THEN "emptyObject" ELSE b)
    /\ pc2' = "done"
    /\ UNCHANGED << method2, attempt2, tokenCalls2, exchanges2, openExchanges2,
                    timer2, response2, statusLog2, waits2 >>
    /\ UNCHANGED << tvars, svars, evars, gvars >>

\* Lines 68 and 72-74 in the second call.
ThrowApiError2 ==
    /\ pc2 = "errbody"
    /\ \E b \in ErrBodies : result2' = createApiError(response2, b)
    /\ pc2' = "failed"
    /\ UNCHANGED << method2, attempt2, tokenCalls2, exchanges2, openExchanges2,
                    timer2, response2, statusLog2, waits2 >>
    /\ UNCHANGED << tvars, svars, evars, gvars >>

\* Lines 70-91 in the second call.
FetchRejects2 ==
    /\ pc2 = "inflight"
    /\ \E k \in ThrownKinds :
        /\ timer2' = 0
        /\ openExchanges2' = openExchanges2 - 1
        /\ statusLog2' = Append(statusLog2, 0)
        /\ IF shouldRetry(method2, 0) /\ attempt2 < retryConfig.attempts
           THEN /\ pc2' = "waiting"
                /\ waits2' = Append(waits2,
                                    backoffDelay(retryConfig, attempt2))
                /\ UNCHANGED result2
           ELSE /\ pc2' = "failed"
                /\ result2' = ApiError(IF k = "Error"
                                       THEN << "fetch failed", 0 >>
                                       ELSE << "Unknown error", 0 >>,
                                       500, "NETWORK_ERROR")
                /\ UNCHANGED waits2
    /\ UNCHANGED << method2, attempt2, tokenCalls2, exchanges2, response2 >>
    /\ UNCHANGED << tvars, svars, evars, gvars >>

\* An attempt counter kept on the instance: the second call's attempt++
\* lands on the counter the first call reads.
DelayElapses2_sharedCounter ==
    /\ pc2 = "waiting"
    /\ attempt' = attempt + 1
    /\ pc2' = "loop"
    /\ UNCHANGED << method2, attempt2, tokenCalls2, exchanges2, openExchanges2,
                    timer2, response2, statusLog2, waits2, result2 >>
    /\ UNCHANGED << okBody, errBody, method, baseUrl, fetchImpl,
                    retryConfig, timeoutMs, getToken,
                    pc, token, tokenCalls, sentTokens, exchanges,
                    openExchanges, timer, timersArmed, timerFired, response,
                    statusLog, waits, result >>
    /\ UNCHANGED << svars, evars, gvars >>

\* Lines 62-64 in the second call: its delay has elapsed; attempt++ on its
\* own `let attempt` (line 43).
DelayElapses2 ==
    /\ pc2 = "waiting"
    /\ attempt2' = attempt2 + 1
    /\ pc2' = "loop"
    /\ UNCHANGED << method2, tokenCalls2, exchanges2, openExchanges2, timer2,
                    response2, statusLog2, waits2, result2 >>
    /\ UNCHANGED << tvars, svars, evars, gvars >>

\* request called twice on one Transport before either call has run.
InitConc ==
    /\ method \in ConcMethods
    /\ retryConfig \in [attempts : 0 .. MaxAttempts, minDelayMs : {100},
                        factor : {2}]
    /\ Constructed(<< "u", "/" >>, "absent")
    /\ timeoutMs = TimeoutTicks
    /\ getToken \in TokenModes
    /\ pc = "start"
    /\ attempt = 0
    /\ token = << "unresolved", 0 >>
    /\ tokenCalls = 0
    /\ sentTokens = << >>
    /\ exchanges = 0
    /\ openExchanges = 0
    /\ timer = 0
    /\ timersArmed = << >>
    /\ timerFired = FALSE
    /\ response = 0
    /\ statusLog = << >>
    /\ waits = << >>
    /\ result = NoResult
    /\ okBody = "none"
    /\ errBody = NoBody
    /\ SseStart
    /\ GetAllIdle
    /\ typed = FALSE
    /\ method2 \in ConcMethods
    /\ pc2 = "start"
    /\ attempt2 = 0
    /\ tokenCalls2 = 0
    /\ exchanges2 = 0
    /\ openExchanges2 = 0
    /\ timer2 = 0
    /\ response2 = 0
    /\ statusLog2 = << >>
    /\ waits2 = << >>
    /\ result2 = NoResult

Next2 ==
    \/ ResolveToken2
    \/ TokenResolves2
    \/ TokenRejects2
    \/ StartAttempt2
    \/ Tick2
    \/ TimeoutFires2
    \/ HandleAbort2
    \/ FetchResponds2
    \/ DecodeBody2
    \/ ThrowApiError2
    \/ FetchRejects2
    \/ DelayElapses2

NextConc == Next \/ Next2

SpecConc == InitConc /\ [][NextConc]_vars

\* ------------------------------------------------------ TicketsApi.getAll

\* JavaScript truthiness of a string-or-undefined value: undefined and the
\* empty string are falsy.
Truthy(v) == v # "undefined" /\ v # ""

\* const limit = 100 (line 147).
PageLimit == 100

\* The params a caller may hand to getAll.  The type omits cursor and limit,
\* but an untyped caller can still pass them.
ParamChoices ==
    [status : {"undefined", "open"}, cursor : {"undefined", "c9"},
     limit : {0, 5}]

\* Pages a list request may resolve with: items and optional nextCursor.
CursorValues == {"undefined", "", "c1", "c2"}
ItemLists == { << >>, << "t1" >>, << "t2", "t3" >> }
Pages == [items : ItemLists, nextCursor : CursorValues]

\* Errors transport.request may reject a list request with.
ListErrors ==
    {ApiError(HttpMessage(st), st, getDefaultErrorCode(st)) : st \in {404, 503}}
        \cup {ApiError(<< "Request timeout", 0 >>, 408, "TIMEOUT"),
              RawException}

\* The TypeError of reading items of undefined or spreading undefined.
TypeErrorThrown ==
    [RawException EXCEPT !.message = << "TypeError", 0 >>]

\* { ...params, cursor, limit } (line 150): the two locals override
\* whatever the caller passed under these keys.
Merge(params, cur, lim) ==
    [status |-> params.status, cursor |-> cur, limit |-> lim]

\* The query string list builds (lines 84-90): a key is set only when its
\* value is truthy; "absent" and 0 stand for a key that is not set.
ListQuery(params) ==
    [status |-> IF Truthy(params.status) THEN params.status ELSE "absent",
     cursor |-> IF Truthy(params.cursor) THEN params.cursor ELSE "absent",
     limit |-> IF params.limit # 0 THEN params.limit ELSE 0]

\* getAll is called (lines 144-150): the locals are initialised and the
\* first list request is issued.
GetAllCall ==
    /\ gaPc = "idle"
    /\ \E p \in ParamChoices :
         /\ gaParams' = p
         /\ queries' = Append(queries, ListQuery(Merge(p, "undefined", PageLimit)))
    /\ listOpen' = listOpen + 1
    /\ allTickets' = << >>
    /\ cursor' = "undefined"
    /\ gaPc' = "awaiting"
    /\ UNCHANGED << pages, listFailures, noItems, gaResult >>
    /\ UNCHANGED << tvars, svars, cvars, evars >>

\* A loop that goes on until the cursor is undefined, however empty.
ListResolves_strictUndefined ==
    /\ gaPc = "awaiting"
    /\ Len(pages) < MaxPages
    /\ \E page \in Pages :
         /\ pages' = Append(pages, page)
         /\ allTickets' = allTickets \o page.items
         /\ cursor' = page.nextCursor
         /\ IF page.nextCursor # "undefined"
              THEN /\ queries' = Append(queries,
                          ListQuery(Merge(gaParams, page.nextCursor, PageLimit)))
                   /\ listOpen' = listOpen
                   /\ gaPc' = "awaiting"
                   /\ gaResult' = gaResult
              ELSE /\ queries' = queries
                   /\ listOpen' = listOpen - 1
                   /\ gaPc' = "returned"
                   /\ gaResult' = Resolved(allTickets')
    /\ UNCHANGED << gaParams, listFailures, noItems >>
    /\ UNCHANGED << tvars, svars, cvars, evars >>

\* The awaited list request resolves with a page (lines 150-155): its items
\* are pushed, cursor becomes its nextCursor, and the loop either issues
\* the next list request or ends and getAll returns allTickets.
ListResolves ==
    /\ gaPc = "awaiting"
    /\ Len(pages) < MaxPages
    /\ \E page \in Pages :
         /\ pages' = Append(pages, page)
         /\ allTickets' = allTickets \o page.items
         /\ cursor' = page.nextCursor
         /\ IF Truthy(page.nextCursor)
              THEN /\ queries' = Append(queries,
                          ListQuery(Merge(gaParams, page.nextCursor, PageLimit)))
                   /\ listOpen' = listOpen
                   /\ gaPc' = "awaiting"
                   /\ gaResult' = gaResult
              ELSE /\ queries' = queries
                   /\ listOpen' = listOpen - 1
                   /\ gaPc' = "returned"
                   /\ gaResult' = Resolved(allTickets')
    /\ UNCHANGED << gaParams, listFailures, noItems >>
    /\ UNCHANGED << tvars, svars, cvars, evars >>

\* The awaited list request resolves with undefined (a 204) or with a body
\* that has no items (line 151): the push throws a TypeError out of getAll.
ListResolvesWithoutItems ==
    /\ gaPc = "awaiting"
    /\ noItems' = noItems + 1
    /\ listOpen' = listOpen - 1
    /\ gaPc' = "threw"
    /\ gaResult' = TypeErrorThrown
    /\ UNCHANGED << gaParams, allTickets, cursor, queries, pages, listFailures >>
    /\ UNCHANGED << tvars, svars, cvars, evars >>

\* The awaited list request rejects (line 150): nothing catches the error,
\* so it leaves getAll.
ListRejects ==
    /\ gaPc = "awaiting"
    /\ \E err \in ListErrors :
         /\ listFailures' = Append(listFailures, err)
         /\ gaResult' = err
    /\ listOpen' = listOpen - 1
    /\ gaPc' = "threw"
    /\ UNCHANGED << gaParams, allTickets, cursor, queries, pages, noItems >>
    /\ UNCHANGED << tvars, svars, cvars, evars >>

\* A TicketsApi on an idle Transport, before getAll is called.
InitGetAll ==
    TransportIdle /\ SseStart /\ typed = FALSE /\ Call2Idle /\ GetAllIdle

NextGetAll ==
    \/ GetAllCall
    \/ ListResolves
    \/ ListResolvesWithoutItems
    \/ ListRejects

SpecGetAll == InitGetAll /\ [][NextGetAll]_vars

\* ================================================================ claims

\* The methods the specification calls idempotent.
Idempotent(m) == m \in {"GET", "HEAD", "PUT", "DELETE"}

\* The statuses the specification calls retryable.
Retryable(status) == status = 429 \/ status \in 500 .. 599

\* The status is that of a non-OK response (not an exception, not an abort).
NonOkStatus(status) == status > 0 /\ status \notin 200 .. 299

RECURSIVE Geometric(_, _, _)
\* first * ratio^n by repeated multiplication.
Geometric(first, ratio, n) ==
    IF n = 0 THEN first ELSE ratio * Geometric(first, ratio, n - 1)

\* The i-th backoff delay the specification prescribes (i counted from 1).
ExpectedDelay(i) ==
    Geometric(retryConfig.minDelayMs, retryConfig.factor, i - 1)

\* The error taxonomy of the specification.
ErrorCodes ==
    {"BAD_REQUEST", "UNAUTHORIZED", "FORBIDDEN", "NOT_FOUND", "CONFLICT",
     "VALIDATION_ERROR", "RATE_LIMITED", "INTERNAL_ERROR", "BAD_GATEWAY",
     "SERVICE_UNAVAILABLE", "GATEWAY_TIMEOUT", "UNKNOWN_ERROR", "TIMEOUT",
     "NETWORK_ERROR", "MAX_RETRIES_EXCEEDED"}

\* ------------------------------------------------------------------- C1
\* C1: a POST or PATCH request performs exactly one exchange whatever the
\* first exchange yields and whatever the retry policy is: it never enters a
\* backoff wait, never increments the attempt counter, and once the first
\* exchange has settled no further exchange is issued.
C1_NonIdempotentNeverRetried ==
    method \in {"POST", "PATCH"} =>
        /\ waits = << >>
        /\ attempt = 0
        /\ pc # "waiting"
        /\ exchanges <= 1
        /\ Len(statusLog) >= 1 =>
              /\ exchanges = 1
              /\ pc \in {"decoding", "errbody", "aborted", "done", "failed"}

\* A POST answered with 500 under the largest retry budget has failed with
\* INTERNAL_ERROR after one exchange.
C1_Witness ==
    /\ method = "POST"
    /\ retryConfig.attempts = MaxAttempts
    /\ statusLog = << 500 >>
    /\ pc = "failed"
    /\ result.code = "INTERNAL_ERROR"
    /\ exchanges = 1

C3_NetworkErrorRetried ==
    Idempotent(method) =>
        /\ \A i \in 1 .. Len(statusLog) :
              (statusLog[i] = 0 /\ i - 1 < retryConfig.attempts) =>
                  Len(waits) >= i
        /\ (pc = "failed" /\ result.code = "NETWORK_ERROR") =>
              attempt = retryConfig.attempts

C6_TimeoutKeepsRetrying ==
    (/\ Idempotent(method)
     /\ Len(statusLog) >= 1
     /\ statusLog[Len(statusLog)] = -1
     /\ attempt < retryConfig.attempts) =>
        pc # "failed"

\* C6 as amended: a timeout aborts the in-flight exchange and ends the whole
\* call with TIMEOUT, whatever the method and however many attempts remain:
\* the timed-out exchange is the last one, no backoff wait follows it.  Every
\* attempt that is made arms its own timer of the full timeoutMs.
C6_TimeoutEndsCall ==
    /\ \A i \in 1 .. Len(statusLog) :
          statusLog[i] = -1 =>
              /\ Len(statusLog) = i
              /\ exchanges = i
              /\ Len(waits) = i - 1
              /\ pc \in {"aborted", "failed"}
              /\ pc = "failed" => result.code = "TIMEOUT"
    /\ Len(timersArmed) = exchanges
    /\ \A j \in 1 .. Len(timersArmed) : timersArmed[j] = timeoutMs
    /\ pc = "inflight" => timer \in 1 .. timeoutMs

\* A GET whose second attempt timed out with one attempt to spare: it ran
\* on a timer of its own and the call failed with TIMEOUT.
C6_Witness ==
    /\ method = "GET"
    /\ retryConfig.attempts = 2
    /\ statusLog = << 503, -1 >>
    /\ attempt = 1
    /\ timersArmed = << timeoutMs, timeoutMs >>
    /\ pc = "failed"
    /\ result.code = "TIMEOUT"

\* ------------------------------------------------------------------- C7
\* C7: whenever the timeout timer fires during an attempt, for any method
\* and attempt index, the in-flight exchange is aborted and not left open,
\* and the failure of that attempt is the ApiError with status 408 and code
\* TIMEOUT.
C7_TimeoutIs408 ==
    timerFired =>
        /\ openExchanges = 0
        /\ timer = 0
        /\ statusLog[Len(statusLog)] = -1
        /\ pc \in {"aborted", "failed"}
        /\ pc = "failed" =>
              /\ result.kind = "ApiError"
              /\ result.status = 408
              /\ result.code = "TIMEOUT"

\* The timer fired during the second attempt of a PUT and the call failed.
C7_Witness ==
    /\ method = "PUT"
    /\ timerFired
    /\ attempt = 1
    /\ pc = "failed"
    /\ result.status = 408
    /\ openExchanges = 0

\* ------------------------------------------------------------------- C8
\* C8 as stated: the token provider is invoked once per attempt, so a call
\* that has issued n exchanges has invoked the provider n times.
C8_TokenPerAttempt ==
    (getToken = "provider" /\ exchanges >= 1) => tokenCalls = exchanges

\* C8 as amended: the token is resolved once per request call, before the
\* first attempt: the provider is invoked exactly once however many attempts
\* are made, and every attempt sends the token that invocation returned.
C8_TokenOncePerCall ==
    getToken = "provider" =>
        /\ tokenCalls <= 1
        /\ exchanges >= 1 => tokenCalls = 1
        /\ Len(sentTokens) = exchanges
        /\ \A i \in 1 .. Len(sentTokens) : sentTokens[i] = << "provider", 1 >>

\* Three attempts were made with a provider that had been invoked once.
C8_Witness ==
    /\ getToken = "provider"
    /\ exchanges = 3
    /\ tokenCalls = 1
    /\ sentTokens = << << "provider", 1 >>, << "provider", 1 >>,
                       << "provider", 1 >> >>

\* ------------------------------------------------------------------- C9
\* C9: a call of request ends by resolving with a value or by raising one
\* ApiError whose code is one of the taxonomy (or the code the server's
\* error body gave); no exception that is not an ApiError leaves request.
C9_OnlyApiErrorEscapes ==
    /\ pc = "done" => result.kind = "value"
    /\ pc = "failed" =>
          /\ result.kind = "ApiError"
          /\ result.code \in ErrorCodes \/ result.code = errBody.code

\* ------------------------------------------------------------------ C10
\* C10: while the subscription is active, connect() does not come to rest
\* after a disconnect, be it a clean end of the stream or a failed exchange
\* or read: a reconnect is pending or under way until the handle is invoked.
C10_ReconnectAfterAnyDisconnect ==
    (isActive /\ disconnect \in {"done", "error", "notOk", "noBody"}) =>
        ssePc # "idle"

\* ------------------------------------------------------------------ C11
\* C11: once the cleanup function of a manual-mode subscription has been
\* invoked no new exchange is opened, wherever the cancel falls: during the
\* fetch, during a read, while a failure awaits its catch block, or while
\* the reconnect timer is pending.  No step taken after a cancel raises the
\* number of exchanges opened, and no fetch is in flight after a cancel.
C11_NoExchangeAfterCancel ==
    /\ [](cancels >= 1 => (~isActive /\ ssePc # "fetching"))
    /\ [][cancels >= 1 => connects' = connects]_vars

\* The cancel fell between a failed exchange and the end of its reconnect
\* wait: the subscription came to rest without a second exchange.
C11_Witness ==
    /\ cancels = 1
    /\ disconnect = "error"
    /\ ssePc = "idle"
    /\ connects = 1

\* ------------------------------------------------------------------ C12
\* C12: a second or later invocation of the cleanup function changes
\* nothing: isActive, the controller, the abort signal, the open exchange
\* and the number of exchanges stay as the first invocation left them, and an
\* invocation from outside onMessage also leaves the position of connect(),
\* the buffer and the delivered events as they are (no duplicate delivery).
C12_CancelIdempotent ==
    [][(cancels >= 1 /\ cancels' > cancels) =>
          /\ UNCHANGED << isActive, controller, signalAborted, openChannels,
                          connects, leaked, disconnect >>
          /\ ssePc # "chunkReady" =>
                UNCHANGED << ssePc, buffer, remaining, chunk, delivered >>]_vars

\* The cleanup function has been invoked twice after events were delivered.
C12_Witness ==
    /\ cancels = 2
    /\ ~isActive
    /\ controller = "null"
    /\ Len(delivered) >= 1

\* ------------------------------------------------------------------ C13
\* C13: on every failure of the exchange that is not a cancellation (a
\* non-OK response, a missing body, a rejected fetch or read, whatever the
\* kind of the thrown value) while the subscription is active, a reconnect
\* is scheduled: connect() does not come to rest.
C13_ReconnectAfterAnyFailure ==
    (isActive /\ disconnect \in {"error", "nonError", "notOk", "noBody"}) =>
        ssePc # "idle"

\* ------------------------------------------------------------------ C14
\* C14: with a retry budget attempts >= 0 the call never ends with code
\* MAX_RETRIES_EXCEEDED, whatever the exchanges answer: the loop test is
\* never reached with attempt above the budget, so the loop is left by a
\* return or by a throw from inside it.
C14_FallbackUnreachable ==
    retryConfig.attempts >= 0 =>
        /\ result.code # "MAX_RETRIES_EXCEEDED"
        /\ attempt <= retryConfig.attempts

\* The budget was used up: two exchanges answered 500 with attempts = 1 and
\* the call ended with the error of the last response.
C14_Witness ==
    /\ retryConfig.attempts = 1
    /\ statusLog = << 500, 500 >>
    /\ pc = "failed"
    /\ result.code \in {"INTERNAL_ERROR", "E_CUSTOM"}

\* ------------------------------------------------------------------ C15
\* C15: the attempts of one call are strictly sequential.  At most one
\* exchange is open, and only while the call awaits it; an exchange is
\* opened only from the loop test, when every earlier exchange has settled
\* and every backoff delay that was started has elapsed.
C15_AttemptsSequential ==
    /\ [](/\ openExchanges \in {0, 1}
          /\ (openExchanges = 1) <=> (pc = "inflight")
          /\ pc = "waiting" => Len(waits) = attempt + 1)
    /\ [][exchanges' # exchanges =>
            /\ exchanges' = exchanges + 1
            /\ pc = "loop"
            /\ openExchanges = 0
            /\ Len(statusLog) = exchanges
            /\ Len(waits) = attempt
            /\ attempt = exchanges]_vars

\* The third exchange of a call is in flight after two elapsed delays.
C15_Witness ==
    /\ pc = "inflight"
    /\ exchanges = 3
    /\ Len(waits) = 2
    /\ openExchanges = 1

\* ------------------------------------------------------------------ C16
\* C16: every wait of the call other than the token resolution is bounded
\* by a timer: while the exchange is awaited and while the body of the
\* response is read, the timeout timer is pending.
C16_EveryWaitHasTimer ==
    pc \in {"inflight", "decoding", "errbody"} => timer >= 1

\* ------------------------------------------------------------------ C18
\* C18: a resolved call holds either the decoded body of an OK response or
\* the no-value result of a 204; an OK response whose body cannot be
\* decoded does not resolve to a substitute value.
C18_NoSubstituteValue ==
    pc = "done" =>
        \/ response = 204 /\ result.val = "undefined"
        \/ response # 204 /\ okBody # "invalid" /\ result.val = okBody

\* ------------------------------------------------------------------ C19
\* C19: every ApiError raised by request has a status in 100..599: the
\* status of the failing response for a server-reported error, 408 for a
\* timeout, 500 for an unclassified local failure.
C19_StatusInHttpRange ==
    (pc = "failed" /\ result.kind = "ApiError") =>
        /\ result.status \in 100 .. 599
        /\ result.code = "TIMEOUT" => result.status = 408
        /\ result.code \in {"NETWORK_ERROR", "MAX_RETRIES_EXCEEDED"} =>
              result.status = 500

\* ------------------------------------------------------------------ C20
\* The spec's static table from status to code.
TableCode(status) ==
    LET table == { << 400, "BAD_REQUEST" >>, << 401, "UNAUTHORIZED" >>,
                   << 403, "FORBIDDEN" >>, << 404, "NOT_FOUND" >>,
                   << 409, "CONFLICT" >>, << 422, "VALIDATION_ERROR" >>,
                   << 429, "RATE_LIMITED" >>, << 500, "INTERNAL_ERROR" >>,
                   << 502, "BAD_GATEWAY" >>, << 503, "SERVICE_UNAVAILABLE" >>,
                   << 504, "GATEWAY_TIMEOUT" >> }
    IN  IF \E e \in table : e[1] = status
        THEN (CHOOSE e \in table : e[1] = status)[2]
        ELSE "UNKNOWN_ERROR"

\* The body has the shape {error: {code, message, details?}}.
Structured(body) == body.valid /\ body.code # "none" /\ body.message # "none"

\* C20 as stated: the error of a non-OK response takes message, code and
\* details from a structured body; for every other body its message is
\* "HTTP <status>" and its code is the table's.
C20_BodyVerbatimOrDefaults ==
    pc = "failed" =>
        /\ result.kind = "ApiError"
        /\ result.status = response
        /\ IF Structured(errBody)
           THEN /\ result.message = << errBody.message, 0 >>
                /\ result.code = errBody.code
                /\ result.details = IF errBody.details = "none"
                                    THEN "undefined"
                                    ELSE errBody.details
           ELSE /\ result.message = << "HTTP", response >>
                /\ result.code = TableCode(response)

\* C20 amended: each field falls back on its own.  The message is the
\* body's error.message when present, else "HTTP <status>"; the code is the
\* body's error.code when present, else the table's; details is the body's
\* error.details when present, else undefined.
C20_PerFieldFallback ==
    pc = "failed" =>
        /\ result.kind = "ApiError"
        /\ result.status = response
        /\ result.message = IF errBody.valid /\ errBody.message # "none"
                            THEN << errBody.message, 0 >>
                            ELSE << "HTTP", response >>
        /\ result.code = IF errBody.valid /\ errBody.code # "none"
                         THEN errBody.code
                         ELSE TableCode(response)
        /\ result.details = IF errBody.valid /\ errBody.details # "none"
                            THEN errBody.details
                            ELSE "undefined"
        /\ Structured(errBody) =>
              /\ result.message = << errBody.message, 0 >>
              /\ result.code = errBody.code

\* A 422 whose body carries a message but no code: the message is the
\* body's, the code the table's.
C20_Witness ==
    /\ pc = "failed"
    /\ response = 422
    /\ errBody.valid /\ errBody.message = "custom" /\ errBody.code = "none"
    /\ result.message = << "custom", 0 >>
    /\ result.code = "VALIDATION_ERROR"

\* ------------------------------------------------------------------ C17
\* The locals of each of the two calls.
Call1Locals ==
    << pc, attempt, token, tokenCalls, sentTokens, exchanges, openExchanges,
       timer, timersArmed, timerFired, response, statusLog, waits, result,
       okBody, errBody >>

Call2Locals ==
    << pc2, attempt2, tokenCalls2, exchanges2, openExchanges2, timer2,
       response2, statusLog2, waits2, result2 >>

\* The status an error carries after an exchange that ended with outcome o.
StatusAfter(o) == IF o = -1 THEN 408 ELSE IF o = 0 THEN 500 ELSE o

\* The counters, timer, waits and outcome of a call are what its own
\* exchanges make them: m its method, p its position, a its attempt counter,
\* x and o its exchanges made and open, t its timer, l its log of outcomes,
\* w its waits, r its result.
OwnHistory(m, p, a, x, o, t, l, w, r) ==
    /\ x = Len(l) + o
    /\ o = IF p = "inflight" THEN 1 ELSE 0
    /\ (t >= 1) <=> (p = "inflight")
    /\ Len(w) = IF p = "waiting" THEN a + 1 ELSE a
    /\ \A i \in 1 .. Len(w) : w[i] = ExpectedDelay(i)
    /\ p \in {"loop", "inflight"} => Len(l) = a
    /\ \A i \in 1 .. Len(w) : Idempotent(m) /\ Retryable(l[i])
    /\ (p = "done" /\ Len(l) >= 1) =>
          /\ r.kind = "value"
          /\ l[Len(l)] \in 200 .. 299
          /\ x = a + 1
    /\ (p = "failed" /\ Len(l) >= 1) =>
          /\ r.kind = "ApiError"
          /\ r.status = StatusAfter(l[Len(l)])
          /\ x = a + 1
          /\ \/ ~Idempotent(m)
             \/ ~Retryable(l[Len(l)])
             \/ a = retryConfig.attempts

C21_NoContentIsUndefined ==
    pc = "done" =>
        /\ result.kind = "value"
        /\ response \in 200 .. 299
        /\ response = 204 => (result.val = "undefined" /\ okBody = "none")
        /\ response # 204 =>
              /\ result.val # "undefined"
              /\ okBody # "none"
              /\ okBody # "invalid" => result.val = okBody

\* A retried GET ends with a 204.
C21_Witness ==
    /\ pc = "done"
    /\ statusLog = << 503, 204 >>
    /\ result.val = "undefined"
    /\ okBody = "none"

\* ------------------------------------------------------------------ C22
\* C22: only GET and HEAD requests are retried: a call with any other
\* method (POST, PATCH, PUT, DELETE) makes one exchange and waits for no
\* backoff delay, whatever the response status.
C22_OnlyGetHeadRetried ==
    method \notin {"GET", "HEAD"} => (Len(waits) = 0 /\ exchanges <= 1)

\* ------------------------------------------------------------------ C23
\* The payloads delivered on the current connection.
SinceOpen == SubSeq(delivered, deliveredAtOpen + 1, Len(delivered))

\* C23: the way the stream is split into read chunks does not matter.  At
\* every point of every splitting, what has been delivered followed by what
\* one read of all the rest would deliver is what one read of the whole
\* stream delivers; the buffer is the unterminated tail of the text read so
\* far; and the heartbeat frame is delivered once however it was split.
C23_ChunkingIrrelevant ==
    /\ SinceOpen \o PayloadsOf(SplitLines(buffer \o chunk \o remaining))
         = PayloadsOf(SplitLines(received \o chunk \o remaining))
    /\ buffer = LastPiece(SplitLines(received))
    /\ (received \o chunk \o remaining = Marker \o << "h", "\n", "\n" >>
        /\ Len(received) >= Len(Marker) + 2) =>
            SinceOpen = << << "h" >> >>

\* The heartbeat frame was split between its two newlines: the first read
\* (or reads) ended after the first newline, the event has been delivered
\* once and the second newline is still to come.
C23_Witness ==
    /\ received = Marker \o << "h", "\n" >>
    /\ remaining = << "\n" >>
    /\ SinceOpen = << << "h" >> >>
    /\ buffer = << >>
    /\ ssePc = "reading"

\* ------------------------------------------------------------------ C24
\* The payloads of the complete lines of a text that begin with the six
\* characters of the marker, in the order of the text.
DataPayloads(text) ==
    LET pieces == SplitLines(text)
        complete == [i \in 1 .. (Len(pieces) - 1) |-> pieces[i]]
        HasMarker(l) ==
            /\ Len(l) >= 6
            /\ [i \in 1 .. 6 |-> l[i]] = << "d", "a", "t", "a", ":", " " >>
        dataLines == SelectSeq(complete, HasMarker)
    IN  [i \in 1 .. Len(dataLines) |->
            [j \in 1 .. (Len(dataLines[i]) - 6) |-> dataLines[i][j + 6]]]

\* C24: what has been delivered on a connection is, in order and once each,
\* the marker-stripped payloads of the complete data lines of the text read
\* so far, and nothing else; when the next read is issued no complete line
\* is left in the buffer and no chunk is left unprocessed.
C24_DataLinesOnceInOrder ==
    /\ SinceOpen = DataPayloads(received)
    /\ ssePc = "reading" => (chunk = << >> /\ IndexOfNewline(buffer) = 0)

\* Two data lines have been read and delivered in their order.
C24_Witness ==
    /\ received = Marker \o << "a", "\n" >> \o Marker \o << "b", "\n" >>
    /\ SinceOpen = << << "a" >>, << "b" >> >>
    /\ ssePc = "reading"

\* ------------------------------------------------------------------ C25
\* C25: the subscription holds at most one open network channel at any
\* moment, counting the exchange it awaits or reads and every response it
\* has dropped without reading or cancelling its body.
C25_OneChannelAtATime ==
    openChannels + leaked <= 1

\* ------------------------------------------------------------------ C26
\* C26: once the cleanup function has been invoked the subscription holds
\* nothing: no open exchange, no unreleased response and no pending
\* reconnect timer.
C26_CancelReleasesEverything ==
    cancels >= 1 => (openChannels = 0 /\ leaked = 0 /\ ssePc # "timer")

\* ------------------------------------------------------------------ C27
\* C27: in a typed subscription the events handed to onEvent are the parse
\* results of all payloads that parse among the data lines read, in order,
\* also of those that follow a payload that does not parse; a chunk
\* processed without a cancel is followed by the next read, whatever its
\* payloads were; and a payload that does not parse is reported.
C27_MalformedFrameDropped ==
    /\ [](typed => (/\ parsedEvents = ParsedOf(delivered)
                    /\ ParsedOf(SinceOpen) = ParsedOf(DataPayloads(received))
                    /\ warnings >= Len(delivered) - Len(parsedEvents)))
    /\ [][(typed /\ ssePc = "chunkReady" /\ chunk' = << >>
            /\ isActive /\ isActive') =>
             ssePc' = "reading"]_vars

\* A frame that does not parse was followed by a well-formed one: the
\* second reached onEvent, one warning was made and the loop reads on.
C27_Witness ==
    /\ typed
    /\ delivered = << << "{" >>, << "b" >> >>
    /\ parsedEvents = << [type |-> "ticket_updated"] >>
    /\ warnings = 1
    /\ isActive
    /\ ssePc = "reading"

\* ------------------------------------------------------------------ C28
\* C28: no step of any request call, alone or concurrent with another,
\* succeeding or failing, changes the configuration of the Transport: the
\* base address, the token provider, the exchange primitive, the timeout
\* and the retry policy stay what the constructor made them.
C28_ConfigNeverChanges ==
    [][UNCHANGED << baseUrl, getToken, fetchImpl, timeoutMs, retryConfig >>]_vars

\* Two concurrent calls have ended, one after retries with an error and one
\* with a value, and the configuration is the constructed one.
C28_Witness ==
    /\ pc = "failed" /\ result.kind = "ApiError" /\ Len(waits) = 2
    /\ pc2 = "done"
    /\ baseUrl = << "u" >>
    /\ fetchImpl = "global"
    /\ timeoutMs = TimeoutTicks
    /\ retryConfig = [attempts |-> 2, minDelayMs |-> 100, factor |-> 2]

Attempting ==
    \/ pc \in {"inflight", "aborted", "decoding", "errbody", "waiting", "done"}
    \/ pc = "failed" /\ Len(statusLog) >= 1

C31_NoDeliveryAfterCancel ==
    lateDeliveries = 0

\* ------------------------------------------------------------------ C34
\* C34: when the caller's handler throws during the events of a chunk (a
\* warning is made) and does not cancel, every data line of the chunk has
\* still been handed over in order, the same exchange is read on, and no
\* new exchange or reconnect timer results.
C34_HandlerThrowContained ==
    [][(~typed /\ ssePc = "chunkReady" /\ chunk' = << >>
        /\ warnings' > warnings /\ isActive') =>
          /\ ssePc' = "reading"
          /\ connects' = connects
          /\ openChannels' = openChannels
          /\ disconnect' = disconnect
          /\ SinceOpen' = DataPayloads(received')]_vars

\* The handler threw on each of two events of one connection: both were
\* handed over and the loop reads on the first exchange.
C34_Witness ==
    /\ ~typed
    /\ warnings = 2
    /\ delivered = << << "a" >>, << "b" >> >>
    /\ connects = 1
    /\ openChannels = 1
    /\ isActive
    /\ ssePc = "reading"

\* ------------------------------------------------------------------ C35
\* The payloads of the complete data lines the server sends on some stream.
CompletePayloads ==
    UNION { { DataPayloads(st)[i] : i \in 1 .. Len(DataPayloads(st)) } :
            st \in Streams }

\* C35: the buffer holds no newline; the first read of a connection starts
\* from an empty buffer; and every payload delivered is that of a complete
\* data line of one stream: a partial line left over when a connection
\* ended is neither delivered nor joined to the text of the next connection.
C35_BufferPerConnection ==
    /\ IndexOfNewline(buffer) = 0
    /\ (ssePc = "reading" /\ received = << >>) => buffer = << >>
    /\ \A i \in 1 .. Len(delivered) : delivered[i] \in CompletePayloads

\* The first connection ended leaving the partial line "data: p" and a
\* second connection has been opened; nothing was delivered.
C35_Witness ==
    /\ connects = 2
    /\ ssePc = "fetchedOk"
    /\ buffer = Marker \o << "p" >>
    /\ delivered = << >>

\* ------------------------------------------------------------------ C32
\* C32: each attempt arms one timer of the full timeoutMs and it is cleared
\* when the attempt's exchange settles.  A timer is pending exactly while
\* an exchange is in flight: none during a backoff wait or after the call
\* has ended; a new attempt starts with no timer pending and a full one of
\* its own; and an exchange is aborted only by the timer armed for it.
C32_OneTimerPerAttempt ==
    /\ [](/\ timer \in 0 .. timeoutMs
          /\ (timer >= 1) <=> (pc = "inflight")
          /\ Len(timersArmed) = exchanges
          /\ \A i \in 1 .. Len(timersArmed) : timersArmed[i] = timeoutMs
          /\ pc = "aborted" => timerFired)
    /\ [][exchanges' # exchanges =>
            (timer = 0 /\ timer' = timeoutMs /\ ~timerFired')]_vars
    /\ [][(Len(statusLog') > Len(statusLog)
           /\ statusLog'[Len(statusLog')] = -1) =>
            (timer = 1 /\ timer' = 0 /\ timerFired')]_vars

\* The second attempt has just begun after a backoff wait: its timer is
\* full although the first attempt's had partly run down or been cleared.
C32_Witness ==
    /\ pc = "inflight"
    /\ exchanges = 2
    /\ Len(waits) = 1
    /\ timer = timeoutMs
    /\ timersArmed = << timeoutMs, timeoutMs >>

RECURSIVE ItemsOf(_)
ItemsOf(ps) ==
    IF ps = << >> THEN << >> ELSE ps[1].items \o ItemsOf(Tail(ps))

\* C36: getAll has at most one list request in flight; the first carries
\* no cursor and each later one the nextCursor of the page before it, all
\* with limit 100 and the caller's filter; every page but the last served
\* has a nextCursor; getAll returns only after a page without nextCursor,
\* with the items of all pages in page order; a failed list request ends
\* the call with that error and no list; and an ended call does nothing more.
C36_GetAllPagination ==
    /\ [](/\ listOpen \in {0, 1}
          /\ listOpen = 1 <=> gaPc = "awaiting"
          /\ Len(queries) = Len(pages) + Len(listFailures) + noItems + listOpen
          /\ Len(listFailures) + noItems <= 1
          /\ allTickets = ItemsOf(pages)
          /\ \A i \in 1 .. Len(queries) :
                /\ queries[i].limit = PageLimit
                /\ queries[i].status =
                     (IF Truthy(gaParams.status) THEN gaParams.status ELSE "absent")
                /\ queries[i].cursor =
                     (IF i = 1 THEN "absent" ELSE pages[i - 1].nextCursor)
          /\ \A i \in 1 .. (Len(pages) - 1) : Truthy(pages[i].nextCursor)
          /\ (pages # << >> /\ ~Truthy(pages[Len(pages)].nextCursor)) =>
                gaPc = "returned"
          /\ gaPc = "returned" =>
                /\ pages # << >>
                /\ ~Truthy(pages[Len(pages)].nextCursor)
                /\ gaResult = Resolved(ItemsOf(pages))
                /\ listFailures = << >> /\ noItems = 0
          /\ gaPc = "threw" =>
                /\ gaResult.kind # "value"
                /\ Len(listFailures) + noItems = 1
                /\ listFailures # << >> => gaResult = listFailures[1]
          /\ gaPc \in {"idle", "awaiting"} => gaResult = NoResult)
    /\ [][(gaPc = "returned" \/ gaPc = "threw") => UNCHANGED gvars]_vars

\* Three pages were fetched one after another and getAll returned their
\* items in order; the last page had an empty nextCursor.
C36_Witness ==
    /\ gaPc = "returned"
    /\ pages = << [items |-> << "t1" >>, nextCursor |-> "c1"],
                  [items |-> << >>, nextCursor |-> "c2"],
                  [items |-> << "t2", "t3" >>, nextCursor |-> ""] >>
    /\ queries[2].cursor = "c1"
    /\ queries[3].cursor = "c2"
    /\ gaParams.cursor = "c9"
    /\ gaResult = Resolved(<< "t1", "t2", "t3" >>)

====
